---------------------------- MODULE Spec2Model ----------------------------
(***************************************************************************)
(* Slot availability resolution of the aok5 booking backend                *)
(* (src/backend/index.mjs) and the date helpers of its frontend.           *)
(*                                                                         *)
(* Strings whose characters the code inspects (ISO dates, HH:MM labels,    *)
(* upstream date_time fields) are sequences of one-character strings, so   *)
(* that split/slice/padStart/regex/lexicographic comparison are modelled   *)
(* by what they do.  JSON values are records [t, n, s] tagged by their     *)
(* JavaScript type.                                                        *)
(***************************************************************************)
EXTENDS Integers, Sequences, FiniteSets, TLC

VARIABLES
    \* ---- evaluator inputs/outputs (pure functions of two probe items)
    evIt1, evIt2, evPc, evSlot1, evSlot2, evStatus, evPrice,
    \* ---- calendar/slot model: a display date, a slot start, and what the
    \*      backend and the frontend compute from them
    dtDate, dtStart, dtBackend, dtFrontend,
    \* ---- SLOT_OFFSET_MINUTES, read once from the environment at startup
    slotOffset,
    \* ---- one grid request: its inputs (endpoint, date parameter, the
    \*      rooms_services.json it loads), the handler's locals (meta, pairs,
    \*      idxByPair), the state of each fan-out task, the upstream queries
    \*      issued so far and the responses sent so far
    reqKind, reqDate, config, pc, meta, pairs, task, idxByPair,
    upstreamLog, responses,
    \* ---- one run of fetchIndexedRentalTimes' indexing loop over the
    \*      records of an upstream response
    ix,
    \* ---- grid requests handled at the same time: the handler's locals
    \*      of each, and the rooms_services.json they all load
    reqs,
    \* ---- the schedule UI: the App's state and LeftScheduleV4's state,
    \*      the grid fetches in flight and the clock
    ui

evalVars == <<evIt1, evIt2, evPc, evSlot1, evSlot2, evStatus, evPrice>>
dateVars == <<dtDate, dtStart, dtBackend, dtFrontend>>

reqVars == <<reqKind, reqDate, config, pc, meta, pairs, task, idxByPair,
             upstreamLog, responses>>

extVars == <<ix, reqs, ui>>

vars == <<evalVars, dateVars, slotOffset, reqVars, extVars>>

---------------------------------------------------------------------------
(* Characters and strings                                                  *)

Digits == <<"0", "1", "2", "3", "4", "5", "6", "7", "8", "9">>

IsDigit(c) == c \in {"0", "1", "2", "3", "4", "5", "6", "7", "8", "9"}

DigitVal(c) ==
    CASE c = "0" -> 0 [] c = "1" -> 1 [] c = "2" -> 2 [] c = "3" -> 3 [] c = "4" -> 4
      [] c = "5" -> 5 [] c = "6" -> 6 [] c = "7" -> 7 [] c = "8" -> 8 [] c = "9" -> 9

\* UTF-16 code units of the characters that occur in the modelled strings
CharCode(c) ==
    IF IsDigit(c) THEN 48 + DigitVal(c)
    ELSE CASE c = " " -> 32
           [] c = "-" -> 45
           [] c = "." -> 46
           [] c = ":" -> 58
           [] c = "T" -> 84
           [] c = "Z" -> 90
           [] c = "x" -> 120
           [] OTHER   -> 63

\* JavaScript's < on two strings: code-unit lexicographic order
RECURSIVE StrLess(_, _)
StrLess(a, b) ==
    IF b = <<>> THEN FALSE
    ELSE IF a = <<>> THEN TRUE
    ELSE IF CharCode(Head(a)) # CharCode(Head(b))
         THEN CharCode(Head(a)) < CharCode(Head(b))
         ELSE StrLess(Tail(a), Tail(b))

StrGeq(a, b) == ~StrLess(a, b)

\* String.prototype.slice(from, to) with 0-based, end-exclusive indices
Slice(s, from, to) ==
    LET hi == IF to > Len(s) THEN Len(s) ELSE to
    IN  IF from >= hi THEN <<>> ELSE SubSeq(s, from + 1, hi)

\* String.prototype.split(sep) for a one-character separator
RECURSIVE SplitFrom(_, _, _)
SplitFrom(s, sep, cur) ==
    IF s = <<>> THEN <<cur>>
    ELSE IF Head(s) = sep THEN <<cur>> \o SplitFrom(Tail(s), sep, <<>>)
    ELSE SplitFrom(Tail(s), sep, Append(cur, Head(s)))

Split(s, sep) == SplitFrom(s, sep, <<>>)

\* Number(s) for a string of decimal digits ("" is 0)
RECURSIVE DigitsToNat(_, _)
DigitsToNat(s, acc) ==
    IF s = <<>> THEN acc ELSE DigitsToNat(Tail(s), 10 * acc + DigitVal(Head(s)))

Number(s) == DigitsToNat(s, 0)

\* String(n) for a natural number
RECURSIVE NatToStr(_)
NatToStr(n) ==
    IF n < 10 THEN <<Digits[n + 1]>>
    ELSE Append(NatToStr(n \div 10), Digits[(n % 10) + 1])

\* s.padStart(w, "0")
RECURSIVE PadStart(_, _)
PadStart(s, w) == IF Len(s) >= w THEN s ELSE PadStart(<<"0">> \o s, w)

---------------------------------------------------------------------------
(* JSON / JavaScript values                                                *)

JsNull    == [t |-> "null",      n |-> 0, s |-> ""]
JsUndef   == [t |-> "undefined", n |-> 0, s |-> ""]
JsNum(k)  == [t |-> "number",    n |-> k, s |-> ""]
JsStr(x)  == [t |-> "string",    n |-> 0, s |-> x]

\* An upstream occupancy record; Undefined is what Map.get gives for a
\* key that is not in the index.
Item(dt, rid, price) ==
    [found |-> TRUE, date_time |-> dt, rental_id |-> rid, price |-> price]

Undefined ==
    [found |-> FALSE, date_time |-> <<>>, rental_id |-> JsUndef, price |-> JsUndef]

---------------------------------------------------------------------------
(* ECMAScript Date: time values are kept in whole days since 1970-01-01    *)
(* (the code builds every Date at a fixed UTC hour and only moves it by    *)
(* whole days).                                                            *)

\* ECMAScript DayFromYear(y)
DayFromYear(y) ==
    365 * (y - 1970) + ((y - 1969) \div 4) - ((y - 1901) \div 100)
        + ((y - 1601) \div 400)

InLeapYear(y) == DayFromYear(y + 1) - DayFromYear(y) = 366

\* days before month index mi (0 = January) in year y
DaysBeforeMonth(y, mi) ==
    LET cum == <<0, 31, 59, 90, 120, 151, 181, 212, 243, 273, 304, 334>>
    IN  cum[mi + 1] + (IF mi >= 2 /\ InLeapYear(y) THEN 1 ELSE 0)

\* Date.UTC(y, mi, d, ...) as a day number: MakeDay normalises the month
\* index into the year, the day of month simply adds; a year 0..99 means
\* 1900 + year.
DateUTC(y, mi, d) ==
    LET yy == IF y >= 0 /\ y <= 99 THEN 1900 + y ELSE y
        ym == yy + (mi \div 12)
        mn == mi % 12
    IN  DayFromYear(ym) + DaysBeforeMonth(ym, mn) + d - 1

\* getUTCFullYear / getUTCMonth (0-based) / getUTCDate / getUTCDay
getUTCFullYear(t) ==
    LET est == 1970 + (t \div 365)
    IN  CHOOSE y \in (est - 2)..(est + 2) :
            DayFromYear(y) <= t /\ t < DayFromYear(y + 1)

getUTCMonth(t) ==
    LET y == getUTCFullYear(t)
        n == t - DayFromYear(y)
    IN  CHOOSE mi \in 0..11 :
            /\ DaysBeforeMonth(y, mi) <= n
            /\ (mi = 11 \/ n < DaysBeforeMonth(y, mi + 1))

getUTCDate(t) ==
    LET y == getUTCFullYear(t)
    IN  t - DayFromYear(y) - DaysBeforeMonth(y, getUTCMonth(t)) + 1

getUTCDay(t) == (t + 4) % 7

---------------------------------------------------------------------------
(* Backend calendar/slot model                                             *)

\* JavaScript %: the remainder takes the sign of the dividend
JsRem(a, b) == IF a >= 0 THEN a % b ELSE -((-a) % b)

\* String(n) for an integer
IntToStr(n) == IF n < 0 THEN <<"-">> \o NatToStr(-n) ELSE NatToStr(n)

shiftMinutes(hhmm, delta) ==
    LET p     == Split(hhmm, ":")
        total == JsRem(Number(p[1]) * 60 + Number(p[2]) + delta + 1440, 1440)
        hh    == total \div 60
        mm    == JsRem(total, 60)
    IN  PadStart(IntToStr(hh), 2) \o <<":">> \o PadStart(IntToStr(mm), 2)

slotTime1(startHHMM) == shiftMinutes(startHHMM, slotOffset)
slotTime2(startHHMM) == shiftMinutes(startHHMM, 60 + slotOffset)

getDayTypeSatSun(dateIso) ==
    LET p   == Split(dateIso, "-")
        dt  == DateUTC(Number(p[1]), Number(p[2]) - 1, Number(p[3]))
        dow == getUTCDay(dt)
    IN  IF dow = 6 \/ dow = 0 THEN "weekend" ELSE "weekday"

getDayType(dateIso) ==
    LET p   == Split(dateIso, "-")
        dt  == DateUTC(Number(p[1]), Number(p[2]) - 1, Number(p[3]))
        dow == getUTCDay(dt)
    IN  IF dow = 5 \/ dow = 6 \/ dow = 0 THEN "weekend" ELSE "weekday"

Str0800 == <<"0", "8", ":", "0", "0">>
Str1600 == <<"1", "6", ":", "0", "0">>

getDayBandShifted(startHHMM) ==
    IF StrGeq(slotTime1(startHHMM), Str0800) /\ StrLess(slotTime1(startHHMM), Str1600)
    THEN "day" ELSE "night"

getDayBand(startHHMM) ==
    IF StrGeq(startHHMM, Str0800) /\ StrLess(startHHMM, Str1600)
    THEN "day" ELSE "night"

addDaysIsoNoCarry(isoDate, deltaDays) ==
    LET p == Split(isoDate, "-")
    IN  p[1] \o <<"-">> \o p[2] \o <<"-">>
           \o PadStart(NatToStr(Number(p[3]) + deltaDays), 2)

addDaysIso(isoDate, deltaDays) ==
    LET p  == Split(isoDate, "-")
        dt == DateUTC(Number(p[1]), Number(p[2]) - 1, Number(p[3])) + deltaDays
    IN  NatToStr(getUTCFullYear(dt)) \o <<"-">>
           \o PadStart(NatToStr(getUTCMonth(dt) + 1), 2) \o <<"-">>
           \o PadStart(NatToStr(getUTCDate(dt)), 2)

realDateForStartNoRollback(uiDateIso, startHHMM) == uiDateIso

realDateForStart(uiDateIso, startHHMM) ==
    LET hh == Number(Slice(startHHMM, 0, 2))
    IN  IF hh < 6 THEN addDaysIso(uiDateIso, -1) ELSE uiDateIso

\* /^\d{4}-\d{2}-\d{2}$/
isIsoDate(s) ==
    /\ Len(s) = 10
    /\ \A i \in {1, 2, 3, 4, 6, 7, 9, 10} : IsDigit(s[i])
    /\ s[5] = "-" /\ s[8] = "-"

\* "HH:00" labels of the fixed slot grid
HourLabel(h) == <<Digits[(h \div 10) + 1], Digits[(h % 10) + 1], ":", "0", "0">>

STARTS == <<HourLabel(6), HourLabel(8), HourLabel(10), HourLabel(12),
            HourLabel(14), HourLabel(16), HourLabel(18), HourLabel(20),
            HourLabel(22), HourLabel(0), HourLabel(2), HourLabel(4)>>

StartSet == {STARTS[i] : i \in 1..Len(STARTS)}

---------------------------------------------------------------------------
(* Frontend date helpers (utils/date.ts, LeftScheduleV4)                   *)

\* /^(\d{4})-(\d{2})-(\d{2})$/
MatchesIsoDate(s) ==
    /\ Len(s) = 10
    /\ \A i \in {1, 2, 3, 4, 6, 7, 9, 10} : IsDigit(s[i])
    /\ s[5] = "-" /\ s[8] = "-"

parseIso(iso) ==
    IF ~MatchesIsoDate(iso) THEN [y |-> 1970, m |-> 1, d |-> 1]
    ELSE [y |-> Number(SubSeq(iso, 1, 4)),
          m |-> Number(SubSeq(iso, 6, 7)),
          d |-> Number(SubSeq(iso, 9, 10))]

pad2(n) == PadStart(NatToStr(n), 2)

\* Date.UTC(y, m - 1, d) + deltaDays * 86400000, in days
addDays(iso, deltaDays) ==
    LET p  == parseIso(iso)
        dt == DateUTC(p.y, p.m - 1, p.d) + deltaDays
    IN  NatToStr(getUTCFullYear(dt)) \o <<"-">> \o pad2(getUTCMonth(dt) + 1)
           \o <<"-">> \o pad2(getUTCDate(dt))

cellDateIso(dateIso, startHHMM) ==
    LET hh == Number(Slice(startHHMM, 0, 2))
    IN  IF hh < 6 THEN addDays(dateIso, -1) ELSE dateIso

tariffSlotDateIso(dateIso, startHHMM) ==
    LET hh == Number(Slice(startHHMM, 0, 2))
    IN  IF hh < 6 THEN addDays(dateIso, -1) ELSE dateIso

---------------------------------------------------------------------------
(* Slot evaluator                                                          *)

isFreeItemNoGuard(it) ==
    \/ it.rental_id = JsNull
    \/ it.rental_id = JsUndef
    \/ it.rental_id = JsStr("")
    \/ it.rental_id = JsNum(0)

isFreeItemLooseZero(it) ==
    IF ~it.found THEN FALSE
    ELSE \/ it.rental_id = JsNull
         \/ it.rental_id = JsUndef
         \/ it.rental_id = JsStr("")
         \/ it.rental_id = JsNum(0)
         \/ it.rental_id = JsStr("0")

isFreeItem(it) ==
    IF ~it.found THEN FALSE
    ELSE \/ it.rental_id = JsNull
         \/ it.rental_id = JsUndef
         \/ it.rental_id = JsStr("")
         \/ it.rental_id = JsNum(0)

slotInfo(it, date, time) ==
    IF ~it.found
    THEN [date_time |-> date \o <<" ">> \o time,
          found     |-> FALSE,
          rental_id |-> JsNull,
          status    |-> "missing"]
    ELSE [date_time |-> date \o <<" ">> \o time,
          found     |-> TRUE,
          rental_id |-> IF it.rental_id = JsUndef THEN JsNull ELSE it.rental_id,
          status    |-> IF isFreeItem(it) THEN "free" ELSE "busy"]

pickPriceSecondFirst(it1, it2) ==
    LET p2 == IF it2.found /\ it2.price.t = "number" THEN it2.price ELSE JsNull
        p1 == IF it1.found /\ it1.price.t = "number" THEN it1.price ELSE JsNull
    IN  IF p2 # JsNull THEN p2 ELSE p1

pickPrice(it1, it2) ==
    LET p1 == IF it1.found /\ it1.price.t = "number" THEN it1.price ELSE JsNull
        p2 == IF it2.found /\ it2.price.t = "number" THEN it2.price ELSE JsNull
    IN  IF p1 # JsNull THEN p1 ELSE p2

evaluateRoomStatusBusyFirst(slot1, slot2) ==
    IF slot1.status = "busy" \/ slot2.status = "busy"
    THEN [status |-> "busy", reason |-> "occupied"]
    ELSE IF slot1.status = "missing" \/ slot2.status = "missing"
    THEN [status |-> "missing", reason |-> "slot_missing"]
    ELSE [status |-> "free", reason |-> "null"]

evaluateRoomStatus(slot1, slot2) ==
    IF slot1.status = "missing" \/ slot2.status = "missing"
    THEN [status |-> "missing", reason |-> "slot_missing"]
    ELSE IF slot1.status = "busy" \/ slot2.status = "busy"
    THEN [status |-> "busy", reason |-> "occupied"]
    ELSE [status |-> "free", reason |-> "null"]

---------------------------------------------------------------------------
(* Configuration (rooms_services.json) and service resolution             *)

\* The nested services tables are kept flat: services.elite maps
\* <<dayType, band>> and services.comfort maps <<group, dayType, band>> to a
\* service_id; a path that is not in the table is what the optional chain
\* config.services?.elite?.[dayType]?.[band] gives for a missing level.
NoSid == ""

Lookup(table, path) == IF path \in DOMAIN table THEN table[path] ELSE NoSid

\* loadConfig's checks of the parsed file: the Error thrown, if any
loadConfig(cfg) ==
    IF ~cfg.roomsIsArray
    THEN [threw |-> TRUE, message |-> <<"rooms_services.json: missing rooms array">>]
    ELSE IF ~cfg.services.hasElite \/ ~cfg.services.hasComfort
    THEN [threw |-> TRUE, message |-> <<"rooms_services.json: missing services">>]
    ELSE [threw |-> FALSE, message |-> <<>>]

splitRooms(rooms) ==
    LET comfort == SelectSeq(rooms, LAMBDA r : r.type = "comfort")
        elites  == SelectSeq(rooms, LAMBDA r : r.type = "elite")
    IN  [comfort |-> comfort,
         elite   |-> IF elites = <<>> THEN <<>> ELSE <<Head(elites)>>]

\* pickEliteServiceId / pickComfortServiceId: the service_id, or the thrown
\* Error with the path its message names
pickEliteServiceId(cfg, realDateIso, startHHMM) ==
    LET dayType == getDayType(realDateIso)
        band    == getDayBand(startHHMM)
        id      == Lookup(cfg.services.elite, <<dayType, band>>)
    IN  IF id = NoSid
        THEN [threw |-> TRUE, id |-> NoSid,
              message |-> <<"Missing elite service_id for", dayType, band>>]
        ELSE [threw |-> FALSE, id |-> id, message |-> <<>>]

pickComfortServiceIdOrDefault(cfg, group, realDateIso, startHHMM) ==
    LET dayType == getDayType(realDateIso)
        band    == getDayBand(startHHMM)
        id      == Lookup(cfg.services.comfort, <<group, dayType, band>>)
    IN  [threw |-> FALSE, id |-> IF id = NoSid THEN "default" ELSE id,
         message |-> <<>>]

pickComfortServiceId(cfg, group, realDateIso, startHHMM) ==
    LET dayType == getDayType(realDateIso)
        band    == getDayBand(startHHMM)
        id      == Lookup(cfg.services.comfort, <<group, dayType, band>>)
    IN  IF id = NoSid
        THEN [threw |-> TRUE, id |-> NoSid,
              message |-> <<"Missing comfort service_id for", group, dayType, band>>]
        ELSE [threw |-> FALSE, id |-> id, message |-> <<>>]

---------------------------------------------------------------------------
(* Upstream call and index                                                 *)

\* What one upstream GET can come back with: a transport failure, or an
\* HTTP status with a body that is JSON or not, carries result:false or
\* not, and has a data array or not.
\* (error_message "" stands for a body without that property)
NoBody ==
    [isJson |-> FALSE, result |-> "absent", dataIsArray |-> FALSE, data |-> <<>>,
     error_message |-> ""]

DataBody(items) ==
    [isJson |-> TRUE, result |-> "true", dataIsArray |-> TRUE, data |-> items,
     error_message |-> ""]

ResultFalseBody ==
    [isJson |-> TRUE, result |-> "false", dataIsArray |-> FALSE, data |-> <<>>,
     error_message |-> "Access denied"]

HttpOutcome(status, body) == [transport |-> "ok", http |-> status, body |-> body]

NetworkFailure == [transport |-> "failed", http |-> 0, body |-> NoBody]

\* `${resp.status}` for the statuses of the modelled upstream outcomes
StatusText(http) ==
    CASE http = 200 -> "200"
      [] http = 404 -> "404"
      [] http = 500 -> "500"
      [] http = 503 -> "503"
      [] OTHER      -> "other"

\* an Error's details property: absent, the body of an HTTP error
\* response, or what extractUpstreamError returns
NoDetails == [kind |-> "none", error_message |-> ""]

extractUpstreamError(json) ==
    IF json.isJson /\ json.result = "false"
    THEN [kind |-> "upstream_error",
          error_message |-> IF json.error_message = ""
                            THEN "Upstream returned result=false"
                            ELSE json.error_message]
    ELSE NoDetails

\* apiGet: the parsed JSON, or the Error thrown (status 0: the Error has
\* no status property); an Error's message is kept as the sequence of the
\* parts its template string joins
apiGetIgnoreResultFalse(o) ==
    IF o.transport # "ok"
    THEN [threw |-> TRUE, status |-> 0, message |-> <<"fetch failed">>,
          details |-> NoDetails, json |-> NoBody]
    ELSE IF ~(o.http >= 200 /\ o.http <= 299)
    THEN [threw |-> TRUE, status |-> o.http,
          message |-> <<"Upstream error", StatusText(o.http)>>,
          details |-> [kind |-> "http_body", error_message |-> o.body.error_message],
          json |-> NoBody]
    ELSE [threw |-> FALSE, status |-> o.http, message |-> <<>>,
          details |-> NoDetails,
          json |-> IF o.body.isJson THEN o.body ELSE NoBody]

apiGet(o) ==
    IF o.transport # "ok"
    THEN [threw |-> TRUE, status |-> 0, message |-> <<"fetch failed">>,
          details |-> NoDetails, json |-> NoBody]
    ELSE IF ~(o.http >= 200 /\ o.http <= 299)
    THEN [threw |-> TRUE, status |-> o.http,
          message |-> <<"Upstream error", StatusText(o.http)>>,
          details |-> [kind |-> "http_body", error_message |-> o.body.error_message],
          json |-> NoBody]
    ELSE IF extractUpstreamError(o.body) # NoDetails
    THEN [threw |-> TRUE, status |-> 502,
          message |-> <<"Upstream result=false:",
                        extractUpstreamError(o.body).error_message>>,
          details |-> extractUpstreamError(o.body), json |-> NoBody]
    ELSE [threw |-> FALSE, status |-> o.http, message |-> <<>>,
          details |-> NoDetails,
          json |-> IF o.body.isJson THEN o.body ELSE NoBody]

normalizeRentalTimesPayloadAnyData(json) ==
    IF json.isJson THEN json.data ELSE <<>>

normalizeRentalTimesPayload(json) ==
    IF json.isJson /\ json.dataIsArray THEN json.data ELSE <<>>

\* /^(\d{4}-\d{2}-\d{2})[ T](\d{2}:\d{2})/ on the record's date_time
parseDateTime(item) ==
    LET s == item.date_time
    IN  IF /\ Len(s) >= 16
           /\ \A i \in {1, 2, 3, 4, 6, 7, 9, 10, 12, 13, 15, 16} : IsDigit(s[i])
           /\ s[5] = "-" /\ s[8] = "-"
           /\ s[11] \in {" ", "T"}
           /\ s[14] = ":"
        THEN [date |-> SubSeq(s, 1, 10), time |-> SubSeq(s, 12, 16)]
        ELSE [date |-> <<>>, time |-> <<>>]

\* the byKey Map: a function from <<date, time>> to the record last set
MapSetKeepFirst(map, k, v) == map @@ (k :> v)

MapSet(map, k, v) == (k :> v) @@ map

MapGet(map, k) == IF k \in DOMAIN map THEN map[k] ELSE Undefined

RECURSIVE indexItems(_, _)
indexItems(items, byKey) ==
    IF items = <<>> THEN byKey
    ELSE LET dt == parseDateTime(Head(items))
         IN  IF dt.date = <<>> \/ dt.time = <<>>
             THEN indexItems(Tail(items), byKey)
             ELSE indexItems(Tail(items),
                             MapSet(byKey, <<dt.date, dt.time>>, Head(items)))

\* fetchIndexedRentalTimes after apiGet has returned
fetchIndexedRentalTimes(json) ==
    indexItems(normalizeRentalTimesPayload(json), <<>>)

---------------------------------------------------------------------------
(* Grid handlers                                                           *)

PairKey(p) == <<p.service_id, p.room_id>>

\* the handlers' resolution loops: one meta entry per slot (elite) or per
\* slot and room (comfort), in loop order; sid.threw marks the entry at
\* which the pick function throws
eliteMeta(cfg, elite, uiDate) ==
    [i \in 1..Len(STARTS) |->
        LET start    == STARTS[i]
            realDate == realDateForStart(uiDate, start)
        IN  [start |-> start, realDate |-> realDate,
             sid |-> pickEliteServiceId(cfg, realDate, start),
             room_id |-> elite.id]]

comfortMeta(cfg, comfort, uiDate) ==
    [k \in 1..(Len(STARTS) * Len(comfort)) |->
        LET start    == STARTS[((k - 1) \div Len(comfort)) + 1]
            room     == comfort[((k - 1) % Len(comfort)) + 1]
            realDate == realDateForStart(uiDate, start)
        IN  [start |-> start, realDate |-> realDate,
             sid |-> pickComfortServiceId(cfg, room.group, realDate, start),
             room_id |-> room.id]]

metaEntry(r) ==
    [start |-> r.start, realDate |-> r.realDate, service_id |-> r.sid.id,
     room_id |-> r.room_id]

\* Array.from(pairs.values()): the Map keeps one entry per key, in the
\* order of first insertion
pairsValuesNoDedup(m) ==
    [i \in 1..Len(m) |-> [service_id |-> m[i].service_id, room_id |-> m[i].room_id]]

RECURSIVE pairsFrom(_, _)
pairsFrom(m, acc) ==
    IF m = <<>> THEN acc
    ELSE LET p == [service_id |-> Head(m).service_id, room_id |-> Head(m).room_id]
         IN  IF \E j \in 1..Len(acc) : PairKey(acc[j]) = PairKey(p)
             THEN pairsFrom(Tail(m), acc)
             ELSE pairsFrom(Tail(m), Append(acc, p))

pairsValues(m) == pairsFrom(m, <<>>)

\* one probe lookup of the grid loops: byKey ? byKey.get(key) : null
probe(idx, service_id, room_id, realDate, t) ==
    IF <<service_id, room_id>> \in DOMAIN idx
    THEN MapGet(idx[<<service_id, room_id>>], <<realDate, t>>)
    ELSE Undefined

eliteCellMissingIsFree(m, idx) ==
    LET t1     == slotTime1(m.start)
        t2     == slotTime2(m.start)
        it1    == probe(idx, m.service_id, m.room_id, m.realDate, t1)
        it2    == probe(idx, m.service_id, m.room_id, m.realDate, t2)
        status == evaluateRoomStatus(slotInfo(it1, m.realDate, t1),
                                     slotInfo(it2, m.realDate, t2))
    IN  [free        |-> IF status.status # "busy" THEN 1 ELSE 0,
         price       |-> pickPrice(it1, it2),
         service_id  |-> m.service_id,
         room_id     |-> m.room_id,
         total_count |-> 1,
         reason      |-> status.reason]

eliteCell(m, idx) ==
    LET t1     == slotTime1(m.start)
        t2     == slotTime2(m.start)
        it1    == probe(idx, m.service_id, m.room_id, m.realDate, t1)
        it2    == probe(idx, m.service_id, m.room_id, m.realDate, t2)
        status == evaluateRoomStatus(slotInfo(it1, m.realDate, t1),
                                     slotInfo(it2, m.realDate, t2))
    IN  [free        |-> IF status.status = "free" THEN 1 ELSE 0,
         price       |-> pickPrice(it1, it2),
         service_id  |-> m.service_id,
         room_id     |-> m.room_id,
         total_count |-> 1,
         reason      |-> status.reason]

\* grid[m.start] = {...} for each meta entry: the last entry of a start wins
eliteGrid(m, idx) ==
    [s \in {m[i].start : i \in 1..Len(m)} |->
        LET last == CHOOSE i \in 1..Len(m) :
                        /\ m[i].start = s
                        /\ \A j \in 1..Len(m) : m[j].start = s => j <= i
        IN  eliteCell(m[last], idx)]

\* Math.min on two numbers
MathMin(a, b) == IF a <= b THEN a ELSE b

\* one pass of the comfort grid's inner loop over a room
comfortStepAnyPrice(acc, cfg, room, realDate, start, t1, t2, idx) ==
    LET sid    == pickComfortServiceId(cfg, room.group, realDate, start).id
        it1    == probe(idx, sid, room.id, realDate, t1)
        it2    == probe(idx, sid, room.id, realDate, t2)
        status == evaluateRoomStatus(slotInfo(it1, realDate, t1),
                                     slotInfo(it2, realDate, t2))
        price  == pickPrice(it1, it2)
        minp   == IF price # JsNull
                  THEN (IF acc.min_price = JsNull THEN price
                        ELSE JsNum(MathMin(acc.min_price.n, price.n)))
                  ELSE acc.min_price
    IN  IF status.status = "free"
        THEN [acc EXCEPT !.free_count = @ + 1, !.min_price = minp]
        ELSE [acc EXCEPT !.busy_count = @ + 1, !.min_price = minp]

comfortStepSkipMissing(acc, cfg, room, realDate, start, t1, t2, idx) ==
    LET sid    == pickComfortServiceId(cfg, room.group, realDate, start).id
        it1    == probe(idx, sid, room.id, realDate, t1)
        it2    == probe(idx, sid, room.id, realDate, t2)
        status == evaluateRoomStatus(slotInfo(it1, realDate, t1),
                                     slotInfo(it2, realDate, t2))
        price  == pickPrice(it1, it2)
    IN  IF status.status = "free"
        THEN [acc EXCEPT !.free_count = @ + 1,
                         !.min_price =
                             IF price # JsNull
                             THEN (IF @ = JsNull THEN price
                                   ELSE JsNum(MathMin(@.n, price.n)))
                             ELSE @]
        ELSE IF status.status = "busy"
        THEN [acc EXCEPT !.busy_count = @ + 1]
        ELSE acc

comfortStep(acc, cfg, room, realDate, start, t1, t2, idx) ==
    LET sid    == pickComfortServiceId(cfg, room.group, realDate, start).id
        it1    == probe(idx, sid, room.id, realDate, t1)
        it2    == probe(idx, sid, room.id, realDate, t2)
        status == evaluateRoomStatus(slotInfo(it1, realDate, t1),
                                     slotInfo(it2, realDate, t2))
        price  == pickPrice(it1, it2)
    IN  IF status.status = "free"
        THEN [acc EXCEPT !.free_count = @ + 1,
                         !.min_price =
                             IF price # JsNull
                             THEN (IF @ = JsNull THEN price
                                   ELSE JsNum(MathMin(@.n, price.n)))
                             ELSE @]
        ELSE [acc EXCEPT !.busy_count = @ + 1]

RECURSIVE comfortFold(_, _, _, _, _, _, _, _)
comfortFold(acc, cfg, rooms, realDate, start, t1, t2, idx) ==
    IF rooms = <<>> THEN acc
    ELSE comfortFold(comfortStep(acc, cfg, Head(rooms), realDate, start, t1, t2, idx),
                     cfg, Tail(rooms), realDate, start, t1, t2, idx)

comfortCell(cfg, comfort, uiDate, start, idx) ==
    LET realDate == realDateForStart(uiDate, start)
        acc      == comfortFold([free_count |-> 0, busy_count |-> 0,
                                 min_price |-> JsNull],
                                cfg, comfort, realDate, start,
                                slotTime1(start), slotTime2(start), idx)
    IN  [free_count  |-> acc.free_count,
         busy_count  |-> acc.busy_count,
         total_count |-> Len(comfort),
         min_price   |-> acc.min_price]

comfortGrid(cfg, comfort, uiDate, idx) ==
    [s \in StartSet |-> comfortCell(cfg, comfort, uiDate, s, idx)]

\* res.json({result: true, ..., grid}) and res.status(status).json({error})
GridResponse(kind, uiDate, grid) ==
    [status |-> 200, result |-> TRUE, kind |-> kind, date |-> uiDate,
     grid |-> grid, error |-> <<>>, upstream |-> NoDetails]

ErrorResponse(status, message) ==
    [status |-> status, result |-> FALSE, kind |-> "error", date |-> <<>>,
     grid |-> <<>>, error |-> message, upstream |-> NoDetails]

\* the catch block: status e.status || 500, error e.message, upstream
\* e.details || undefined
CatchResponse(e) ==
    [ErrorResponse(IF e.status = 0 THEN 500 ELSE e.status, e.message)
        EXCEPT !.upstream = e.details]

\* idxByPair.set(`${p.service_id}|${p.room_id}`, byKey) of a fan-out task
setIndexShared(idx, p, byKey) ==
    [k \in DOMAIN idx \cup {<<p.service_id, p.room_id>>} |->
        IF k \in DOMAIN idx THEN byKey @@ idx[k] ELSE byKey]

setIndex(idx, p, byKey) == (<<p.service_id, p.room_id>> :> byKey) @@ idx

\* the upstream window of a request: the day before and the day after the
\* display date
start_dateSameDay(uiDate) == uiDate

start_date(uiDate) == addDaysIso(uiDate, -1)

end_date(uiDate) == addDaysIso(uiDate, 1)

---------------------------------------------------------------------------
(* Calendar ground truth, written from the Gregorian calendar's rules and  *)
(* not from the code's day arithmetic                                      *)

IsLeap(y) == (y % 4 = 0 /\ y % 100 # 0) \/ y % 400 = 0

DaysInMonth(y, m) ==
    IF m = 2 THEN (IF IsLeap(y) THEN 29 ELSE 28)
    ELSE IF m \in {4, 6, 9, 11} THEN 30 ELSE 31

\* the calendar day before y-m-d
PrevDay(y, m, d) ==
    IF d > 1 THEN [y |-> y, m |-> m, d |-> d - 1]
    ELSE IF m > 1 THEN [y |-> y, m |-> m - 1, d |-> DaysInMonth(y, m - 1)]
    ELSE [y |-> y - 1, m |-> 12, d |-> 31]

\* day of week, 0 = Sunday (Sakamoto's method)
DayOfWeek(y, m, d) ==
    LET t  == <<0, 3, 2, 5, 0, 3, 5, 1, 4, 6, 2, 4>>
        yy == IF m < 3 THEN y - 1 ELSE y
    IN  (yy + (yy \div 4) - (yy \div 100) + (yy \div 400) + t[m] + d) % 7

\* YYYY-MM-DD of a calendar day, digit by digit
IsoOf(y, m, d) ==
    <<Digits[((y \div 1000) % 10) + 1], Digits[((y \div 100) % 10) + 1],
      Digits[((y \div 10) % 10) + 1], Digits[(y % 10) + 1], "-",
      Digits[(m \div 10) + 1], Digits[(m % 10) + 1], "-",
      Digits[(d \div 10) + 1], Digits[(d % 10) + 1]>>

IsoOfDay(c) == IsoOf(c.y, c.m, c.d)

\* minutes after midnight of an HH:MM label
MinutesOf(hhmm) ==
    (DigitVal(hhmm[1]) * 10 + DigitVal(hhmm[2])) * 60
        + DigitVal(hhmm[4]) * 10 + DigitVal(hhmm[5])

---------------------------------------------------------------------------
(* Values of the components a specification does not exercise            *)

NoSlot == [date_time |-> <<>>, found |-> FALSE, rental_id |-> JsNull, status |-> "none"]
NoStatus == [status |-> "none", reason |-> "none"]

EvalIdle ==
    /\ evIt1 = Undefined
    /\ evIt2 = Undefined
    /\ evPc = "idle"
    /\ evSlot1 = NoSlot
    /\ evSlot2 = NoSlot
    /\ evStatus = NoStatus
    /\ evPrice = JsUndef

NoDate == <<>>
NoBackend == [real |-> NoDate, band |-> "none", dayType |-> "none",
              key1 |-> <<>>, key2 |-> <<>>]
NoFrontend == [cell |-> NoDate, tariff |-> NoDate]

DateIdle ==
    /\ dtDate = [y |-> 1970, m |-> 1, d |-> 1]
    /\ dtStart = STARTS[1]
    /\ dtBackend = NoBackend
    /\ dtFrontend = NoFrontend

NoConfig ==
    [roomsIsArray |-> FALSE, rooms |-> <<>>,
     services |-> [hasElite |-> FALSE, hasComfort |-> FALSE,
                   elite |-> <<>>, comfort |-> <<>>]]

ReqIdle ==
    /\ reqKind = "none"
    /\ reqDate = NoDate
    /\ config = NoConfig
    /\ pc = "idle"
    /\ meta = <<>>
    /\ pairs = <<>>
    /\ task = <<>>
    /\ idxByPair = <<>>
    /\ upstreamLog = <<>>
    /\ responses = <<>>

IxIdle == [pc |-> "idle", items |-> <<>>, byKey |-> <<>>]

ReqsIdle == [file |-> NoConfig, maps |-> <<>>, run |-> <<>>]

UiIdle == [pc |-> "unmounted"]

ExtIdle ==
    /\ ix = IxIdle
    /\ reqs = ReqsIdle
    /\ ui = UiIdle

---------------------------------------------------------------------------
(* Specification SpecEval: the evaluator applied to every pair of probe    *)
(* lookups drawn from bounded sets of records.                             *)

RentalIds == {JsNull, JsUndef, JsStr(""), JsNum(0), JsStr("abc123"), JsNum(7), JsStr("0")}

Prices == {JsUndef, JsNull, JsNum(0), JsNum(500), JsNum(700), JsStr("500")}

EvDate == <<"2", "0", "2", "5", "-", "0", "1", "-", "2", "0">>
EvTime1 == <<"1", "4", ":", "0", "0">>
EvTime2 == <<"1", "5", ":", "0", "0">>

ProbeItems(time) ==
    {Undefined} \cup
    {Item(EvDate \o <<" ">> \o time, rid, p) : rid \in RentalIds, p \in Prices}

InitEval ==
    /\ ExtIdle
    /\ DateIdle
    /\ ReqIdle
    /\ slotOffset = 0
    /\ evIt1 \in ProbeItems(EvTime1)
    /\ evIt2 \in ProbeItems(EvTime2)
    /\ evPc = "probe"
    /\ evSlot1 = NoSlot
    /\ evSlot2 = NoSlot
    /\ evStatus = NoStatus
    /\ evPrice = JsUndef

\* slotInfo on both probes
EvalProbe ==
    /\ evPc = "probe"
    /\ evSlot1' = slotInfo(evIt1, EvDate, EvTime1)
    /\ evSlot2' = slotInfo(evIt2, EvDate, EvTime2)
    /\ evPc' = "evaluate"
    /\ UNCHANGED <<evIt1, evIt2, evStatus, evPrice, dateVars, slotOffset, reqVars, extVars>>

\* evaluateRoomStatus and pickPrice, as the grid loops call them
EvalVerdict ==
    /\ evPc = "evaluate"
    /\ evStatus' = evaluateRoomStatus(evSlot1, evSlot2)
    /\ evPrice' = pickPrice(evIt1, evIt2)
    /\ evPc' = "done"
    /\ UNCHANGED <<evIt1, evIt2, evSlot1, evSlot2, dateVars, slotOffset, reqVars, extVars>>

NextEval == EvalProbe \/ EvalVerdict

SpecEval == InitEval /\ [][NextEval]_vars

---------------------------------------------------------------------------
(* Claims about the evaluator                                              *)

\* what the claims call absent / busy / free probes, and a numeric price
ProbeAbsent(it) == ~it.found
ProbeBusy(it) ==
    it.found /\ it.rental_id \notin {JsNull, JsUndef, JsStr(""), JsNum(0)}
ProbeFree(it) == it.found /\ ~ProbeBusy(it)
HasNumericPrice(it) == it.found /\ it.price.t = "number"

\* C1: for every pair of probe lookups the verdict is missing/slot_missing
\* if either probe is absent, else busy/occupied if either probe is busy,
\* else free with reason null; an absent probe 1 with a busy probe 2 gives
\* missing, not busy.
C1_VerdictOrder ==
    evPc = "done" =>
        /\ (ProbeAbsent(evIt1) \/ ProbeAbsent(evIt2))
              => evStatus = [status |-> "missing", reason |-> "slot_missing"]
        /\ (~ProbeAbsent(evIt1) /\ ~ProbeAbsent(evIt2)
              /\ (ProbeBusy(evIt1) \/ ProbeBusy(evIt2)))
              => evStatus = [status |-> "busy", reason |-> "occupied"]
        /\ (ProbeFree(evIt1) /\ ProbeFree(evIt2))
              => evStatus = [status |-> "free", reason |-> "null"]

\* probe 1 absent, probe 2 busy, verdict computed
C1_Witness ==
    /\ evPc = "done"
    /\ ProbeAbsent(evIt1)
    /\ ProbeBusy(evIt2)
    /\ evStatus.status = "missing"

\* C5: the selected price is probe 1's price when present and numeric,
\* otherwise probe 2's price when present and numeric, otherwise null.
C5_PriceSelection ==
    evPc = "done" =>
        /\ HasNumericPrice(evIt1) => evPrice = evIt1.price
        /\ (~HasNumericPrice(evIt1) /\ HasNumericPrice(evIt2))
              => evPrice = evIt2.price
        /\ (~HasNumericPrice(evIt1) /\ ~HasNumericPrice(evIt2))
              => evPrice = JsNull

\* probe 1 has price 500 and probe 2 has price 700: 500 is selected
C5_Witness ==
    /\ evPc = "done"
    /\ evIt1.found /\ evIt1.price = JsNum(500)
    /\ evIt2.found /\ evIt2.price = JsNum(700)
    /\ evPrice = JsNum(500)

---------------------------------------------------------------------------
(* Specification SpecDate: the backend's and the frontend's slot date      *)
(* rules applied to every calendar day of MinYear..MaxYear and every slot  *)
(* start.                                                                  *)

MinYear == 2023
MaxYear == 2025

CalendarDays ==
    {c \in [y : MinYear..MaxYear, m : 1..12, d : 1..31] : c.d <= DaysInMonth(c.y, c.m)}

Offsets == {0, 60, -60}

InitDate ==
    /\ ExtIdle
    /\ EvalIdle
    /\ ReqIdle
    /\ slotOffset = 0
    /\ dtDate \in CalendarDays
    /\ dtStart \in StartSet
    /\ dtBackend = NoBackend
    /\ dtFrontend = NoFrontend

\* the handlers' per-slot date, band and day type, and the two keys
\* `${realDate} ${t1}` and `${realDate} ${t2}` that their grid loops look up
DateBackend ==
    /\ dtBackend = NoBackend
    /\ LET real == realDateForStart(IsoOfDay(dtDate), dtStart)
       IN  dtBackend' = [real    |-> real,
                         band    |-> getDayBand(dtStart),
                         dayType |-> getDayType(real),
                         key1    |-> <<real, slotTime1(dtStart)>>,
                         key2    |-> <<real, slotTime2(dtStart)>>]
    /\ UNCHANGED <<evalVars, slotOffset, reqVars, extVars, dtDate, dtStart, dtFrontend>>

\* renderTimeRows' realDateIso and the app's tariffSlotDateIso
DateFrontend ==
    /\ dtFrontend = NoFrontend
    /\ dtFrontend' = [cell   |-> cellDateIso(IsoOfDay(dtDate), dtStart),
                      tariff |-> tariffSlotDateIso(IsoOfDay(dtDate), dtStart)]
    /\ UNCHANGED <<evalVars, slotOffset, reqVars, extVars, dtDate, dtStart, dtBackend>>

NextDate == DateBackend \/ DateFrontend

SpecDate == InitDate /\ [][NextDate]_vars

---------------------------------------------------------------------------
(* Claims about the calendar/slot model                                    *)

\* the real date the claims state: the previous calendar day for the starts
\* 00:00, 02:00 and 04:00, the display date itself otherwise
EarlyStarts == {HourLabel(0), HourLabel(2), HourLabel(4)}

ExpectedRealDay(c, start) ==
    IF start \in EarlyStarts THEN PrevDay(c.y, c.m, c.d) ELSE c

\* C6: for every display date D and slot start, the real date used for the
\* occupancy lookup is D minus one calendar day when the start hour is
\* below 6 and D otherwise, across month and year boundaries too; the
\* frontend's cellDateIso and tariffSlotDateIso compute the same date as
\* the backend's realDateForStart.
C6_RealDate ==
    LET want == IsoOfDay(ExpectedRealDay(dtDate, dtStart))
    IN  /\ dtBackend # NoBackend => dtBackend.real = want
        /\ dtFrontend # NoFrontend =>
              /\ dtFrontend.cell = want
              /\ dtFrontend.tariff = want
        /\ (dtBackend # NoBackend /\ dtFrontend # NoFrontend) =>
              /\ dtFrontend.cell = dtBackend.real
              /\ dtFrontend.tariff = dtBackend.real

\* the 02:00 slot of 1 January is looked up on 31 December of the year
\* before, by the backend and by the frontend
C6_Witness ==
    /\ dtDate = [y |-> MaxYear, m |-> 1, d |-> 1]
    /\ dtStart = HourLabel(2)
    /\ dtBackend # NoBackend
    /\ dtFrontend # NoFrontend
    /\ dtBackend.real = IsoOf(MaxYear - 1, 12, 31)
    /\ dtFrontend.cell = dtBackend.real

---------------------------------------------------------------------------
(* Specification Spec: one grid request (elite or comfort) from its        *)
(* arrival to its response, with the fan-out tasks settling in any order   *)
(* and the upstream answering each query with any of a bounded set of      *)
(* outcomes.                                                               *)

DayTypes == {"weekday", "weekend"}
Bands == {"day", "night"}

Room(id, type, group) == [id |-> id, type |-> type, group |-> group]

Config(rooms, elite, comfort) ==
    [roomsIsArray |-> TRUE, rooms |-> rooms,
     services |-> [hasElite |-> TRUE, hasComfort |-> TRUE,
                   elite |-> elite, comfort |-> comfort]]

\* every leaf has its own service_id; one comfort room
EliteDistinct ==
    (<<"weekday", "day">> :> "el-wd-day") @@ (<<"weekday", "night">> :> "el-wd-night")
    @@ (<<"weekend", "day">> :> "el-we-day") @@ (<<"weekend", "night">> :> "el-we-night")

ComfortDistinct ==
    (<<"g1", "weekday", "day">> :> "g1-wd-day")
    @@ (<<"g1", "weekday", "night">> :> "g1-wd-night")
    @@ (<<"g1", "weekend", "day">> :> "g1-we-day")
    @@ (<<"g1", "weekend", "night">> :> "g1-we-night")

CfgDistinct ==
    Config(<<Room("room-9", "elite", ""), Room("room-1", "comfort", "g1")>>,
           EliteDistinct, ComfortDistinct)

\* service_ids shared by many slots; three comfort rooms in two groups
CfgShared ==
    Config(<<Room("room-1", "comfort", "g1"), Room("room-2", "comfort", "g1"),
             Room("room-9", "elite", ""), Room("room-3", "comfort", "g2")>>,
           [path \in DayTypes \X Bands |->
               IF path[2] = "day" THEN "el-day" ELSE "el-night"],
           [path \in {"g1", "g2"} \X DayTypes \X Bands |->
               IF path[1] = "g1" THEN "cf-a" ELSE "cf-b"])

\* leaves missing: elite weekend/night is absent, comfort g1 weekday/day is
\* the empty string
CfgMissing ==
    Config(<<Room("room-9", "elite", ""), Room("room-1", "comfort", "g1")>>,
           [path \in (DayTypes \X Bands) \ {<<"weekend", "night">>} |->
               EliteDistinct[path]],
           [path \in DOMAIN ComfortDistinct |->
               IF path = <<"g1", "weekday", "day">> THEN NoSid
               ELSE ComfortDistinct[path]])

Configs == {CfgDistinct, CfgShared, CfgMissing}

\* display dates, one per day of the week: Monday 20, Tuesday 21, Thursday
\* 23, Friday 24 and Sunday 26 January 2025, Saturday 1 March 2025 (after a
\* month's end) and Wednesday 1 January 2025 (after a year's)
ReqDays ==
    {[y |-> 2025, m |-> 1, d |-> d] : d \in {20, 21, 23, 24, 26}}
    \cup {[y |-> 2025, m |-> 3, d |-> 1], [y |-> 2025, m |-> 1, d |-> 1]}

Kinds == {"elite", "comfort"}

\* the display date of the requests whose upstream may answer without a
\* data array
SparseDay == [y |-> 2025, m |-> 1, d |-> 22]

DayOfIso(iso) == CHOOSE c \in ReqDays \cup {SparseDay} : IsoOfDay(c) = iso

\* upstream records around a display date c
Rec(day, h, sep, suffix, rid, price) ==
    Item(IsoOfDay(day) \o <<sep>> \o HourLabel(h) \o suffix, rid, price)

Seconds == <<":", "0", "0">>

Bodies(c) ==
    LET p == PrevDay(c.y, c.m, c.d)
    IN  { <<>>,
          \* 14:00-17:00 free, priced 500 on the first hour
          << Rec(c, 14, " ", <<>>, JsNull, JsNum(500)),
             Rec(c, 15, "T", Seconds, JsNull, JsUndef),
             Rec(c, 16, " ", <<>>, JsStr(""), JsNum(500)) >>,
          \* 14:00-17:00 free, priced 700 from the second hour on
          << Rec(c, 14, " ", <<>>, JsNum(0), JsUndef),
             Rec(c, 15, " ", <<>>, JsNull, JsNum(700)),
             Rec(c, 16, " ", <<>>, JsNull, JsNum(700)) >>,
          \* 14:00-17:00 free, no numeric price
          << Rec(c, 14, " ", <<>>, JsNull, JsUndef),
             Rec(c, 15, " ", <<>>, JsUndef, JsNull),
             Rec(c, 16, " ", <<>>, JsNull, JsStr("500")) >>,
          \* 15:00 rented, every hour priced 300
          << Rec(c, 14, " ", <<>>, JsNull, JsNum(300)),
             Rec(c, 15, " ", <<>>, JsStr("abc123"), JsNum(300)),
             Rec(c, 16, " ", <<>>, JsNull, JsNum(300)) >>,
          \* night: 02:00-05:00 free on the previous day, rented on the
          \* display date; two records whose date_time does not parse; of
          \* the afternoon only 15:00 is known, priced 100
          << Rec(p, 2, " ", <<>>, JsNull, JsNum(900)),
             Rec(c, 2, " ", <<>>, JsStr("abc123"), JsUndef),
             Rec(p, 3, "T", Seconds, JsNull, JsNum(900)),
             Rec(c, 3, " ", <<>>, JsStr("abc123"), JsUndef),
             Item(<<"x">>, JsNull, JsNum(1)),
             Rec(p, 4, " ", <<>>, JsNull, JsNum(900)),
             Rec(c, 4, " ", <<>>, JsNum(7), JsUndef),
             Rec(p, 2, "x", <<>>, JsStr("abc123"), JsNum(1)),
             Rec(c, 15, " ", <<>>, JsNull, JsNum(100)) >> }

Outcomes(c) ==
    {HttpOutcome(200, DataBody(b)) : b \in Bodies(c)}
    \cup {HttpOutcome(503, NoBody), HttpOutcome(200, ResultFalseBody), NetworkFailure}

\* date parameters that match YYYY-MM-DD without being calendar days, each
\* with the calendar day that Date.UTC carries it to (the upstream records
\* of such a request lie around that day)
OddDays ==
    {[iso |-> IsoOf(2025, 2, 30), near |-> [y |-> 2025, m |-> 3, d |-> 2]],
     [iso |-> IsoOf(2025, 13, 1), near |-> [y |-> 2026, m |-> 1, d |-> 1]]}

\* date parameters that do not match YYYY-MM-DD: "2025-1-20", "20250120",
\* "2025/01/20" and String(undefined) for a request without a date
MalformedDates ==
    {<<"2", "0", "2", "5", "-", "1", "-", "2", "0">>,
     <<"2", "0", "2", "5", "0", "1", "2", "0">>,
     <<"2", "0", "2", "5", "/", "0", "1", "/", "2", "0">>,
     <<"u", "n", "d", "e", "f", "i", "n", "e", "d">>}

\* what one upstream call of a request for a display date can come to: what
\* apiGet returns or throws and, when it returns, the index that
\* fetchIndexedRentalTimes builds from it
RepliesAround(iso, c) ==
    {[date  |-> iso,
      reply |-> o,
      got   |-> apiGet(o),
      byKey |-> IF apiGet(o).threw THEN <<>>
                ELSE fetchIndexedRentalTimes(apiGet(o).json)]
     : o \in Outcomes(c)}

\* successful responses that carry no data array: a body that is not
\* JSON, a JSON body without data, a JSON body whose data is an object
\* (kept here as the list of its values); beside them a response with
\* records and one HTTP failure
ObjectDataBody(items) ==
    [isJson |-> TRUE, result |-> "true", dataIsArray |-> FALSE, data |-> items,
     error_message |-> ""]

SparseRecords ==
    << Rec(SparseDay, 14, " ", <<>>, JsNull, JsNum(500)),
       Rec(SparseDay, 15, " ", <<>>, JsNull, JsNum(500)) >>

SparseOutcomes ==
    {HttpOutcome(200, DataBody(SparseRecords)),
     HttpOutcome(200, NoBody),
     HttpOutcome(200, ObjectDataBody(<<>>)),
     HttpOutcome(200, ObjectDataBody(SparseRecords)),
     HttpOutcome(503, NoBody)}

SparseReplies ==
    {[date  |-> IsoOfDay(SparseDay),
      reply |-> o,
      got   |-> apiGet(o),
      byKey |-> IF apiGet(o).threw THEN <<>>
                ELSE fetchIndexedRentalTimes(apiGet(o).json)]
     : o \in SparseOutcomes}

Replies ==
    UNION ({RepliesAround(IsoOfDay(c), c) : c \in ReqDays}
           \cup {RepliesAround(d.iso, d.near) : d \in OddDays}
           \cup {SparseReplies})

\* Promise.all over the fan-out tasks
promiseAllSettled(t) ==
    IF \A i \in DOMAIN t : t[i] # "pending" THEN "fulfilled" ELSE "pending"

promiseAllRace(t) ==
    IF \E i \in DOMAIN t : t[i] = "rejected" THEN "rejected"
    ELSE IF \E i \in DOMAIN t : t[i] = "fulfilled" THEN "fulfilled"
    ELSE "pending"

promiseAll(t) ==
    IF \E i \in DOMAIN t : t[i] = "rejected" THEN "rejected"
    ELSE IF \A i \in DOMAIN t : t[i] = "fulfilled" THEN "fulfilled"
    ELSE "pending"

\* an upstream query as the upstream sees it: its parameters and, once
\* the upstream has answered it, the outcome it answered with
NoReply == [transport |-> "none", http |-> 0, body |-> NoBody]

Query(p, from, to) ==
    [service_id |-> p.service_id, room_id |-> p.room_id,
     start_date |-> from, end_date |-> to, reply |-> NoReply]

Init ==
    /\ ExtIdle
    /\ EvalIdle
    /\ DateIdle
    /\ slotOffset \in Offsets
    /\ reqKind \in Kinds
    /\ reqDate \in {IsoOfDay(c) : c \in ReqDays}
    /\ config \in Configs
    /\ pc = "received"
    /\ meta = <<>>
    /\ pairs = <<>>
    /\ task = <<>>
    /\ idxByPair = <<>>
    /\ upstreamLog = <<>>
    /\ responses = <<>>

Respond(r) ==
    /\ responses' = Append(responses, r)
    /\ pc' = "responded"

\* the handler up to its fan-out: validation, loadConfig, splitRooms and
\* the resolution loop; it ends with an error response or with meta
handlerEntry(kind, date, cfg) ==
    LET loaded == loadConfig(cfg)
        rooms  == splitRooms(cfg.rooms)
        raw    == IF kind = "elite"
                  THEN (IF rooms.elite = <<>> THEN <<>>
                        ELSE eliteMeta(cfg, rooms.elite[1], date))
                  ELSE comfortMeta(cfg, rooms.comfort, date)
        thrown == {i \in DOMAIN raw : raw[i].sid.threw}
        fail(status, message) ==
            [failed |-> TRUE, response |-> ErrorResponse(status, message),
             meta |-> <<>>]
    IN  IF ~isIsoDate(date)
        THEN fail(400, <<"Missing/invalid date (YYYY-MM-DD)">>)
        ELSE IF loaded.threw
        THEN fail(500, loaded.message)
        ELSE IF kind = "elite" /\ (rooms.elite = <<>> \/ rooms.elite[1].id = "")
        THEN fail(500, <<"Elite room not found in rooms_services.json">>)
        ELSE IF kind = "comfort" /\ rooms.comfort = <<>>
        THEN fail(500, <<"Comfort rooms not found in rooms_services.json">>)
        ELSE IF thrown # {}
        THEN fail(500, raw[CHOOSE i \in thrown : \A j \in thrown : i <= j].sid.message)
        ELSE [failed |-> FALSE, response |-> ErrorResponse(0, <<>>),
              meta |-> [i \in DOMAIN raw |-> metaEntry(raw[i])]]

\* the handler up to its await Promise.all: handlerEntry and the start of
\* one fetch per pair
EnterHandler(e) ==
    IF e.failed
    THEN /\ Respond(e.response)
         /\ UNCHANGED <<meta, pairs, task, upstreamLog>>
    ELSE /\ meta' = e.meta
         /\ pairs' = pairsValues(meta')
         /\ task' = [i \in 1..Len(pairs') |-> "pending"]
         /\ upstreamLog' =
                [i \in 1..Len(pairs') |->
                    Query(pairs'[i], start_date(reqDate),
                          end_date(reqDate))]
         /\ pc' = "awaiting"
         /\ UNCHANGED responses

HandleRequest ==
    /\ pc = "received"
    /\ EnterHandler(handlerEntry(reqKind, reqDate, config))
    /\ UNCHANGED <<evalVars, dateVars, extVars, slotOffset, reqKind, reqDate, config, idxByPair>>

\* what the handler does when a task's settling settles the Promise.all it
\* awaits: build the grid and answer, or answer from the catch block
\* (before: the Promise.all's state until now; err: what the task threw)
Continue(before, err) ==
    LET after == promiseAll(task')
    IN  IF pc = "awaiting" /\ before = "pending" /\ after = "fulfilled"
        THEN Respond(GridResponse(reqKind, reqDate,
                 IF reqKind = "elite" THEN eliteGrid(meta, idxByPair')
                 ELSE comfortGrid(config, splitRooms(config.rooms).comfort,
                                  reqDate, idxByPair')))
        ELSE IF pc = "awaiting" /\ before = "pending" /\ after = "rejected"
        THEN Respond(CatchResponse(err))
        ELSE UNCHANGED <<pc, responses>>

\* a fan-out task whose upstream call returns: it indexes the records and
\* sets its pair's entry of idxByPair
FetchFulfil(i) ==
    /\ i \in DOMAIN task
    /\ task[i] = "pending"
    /\ \E r \in Replies :
          /\ r.date = reqDate
          /\ ~r.got.threw
          /\ upstreamLog' = [upstreamLog EXCEPT ![i].reply = r.reply]
          /\ idxByPair' = setIndex(idxByPair, pairs[i], r.byKey)
          /\ task' = [task EXCEPT ![i] = "fulfilled"]
          /\ Continue(promiseAll(task), r.got)
    /\ UNCHANGED <<evalVars, dateVars, extVars, slotOffset, reqKind, reqDate, config,
                   meta, pairs>>

\* a fan-out task whose upstream call throws
FetchReject(i) ==
    /\ i \in DOMAIN task
    /\ task[i] = "pending"
    /\ \E r \in Replies :
          /\ r.date = reqDate
          /\ r.got.threw
          /\ upstreamLog' = [upstreamLog EXCEPT ![i].reply = r.reply]
          /\ idxByPair' = idxByPair
          /\ task' = [task EXCEPT ![i] = "rejected"]
          /\ Continue(promiseAll(task), r.got)
    /\ UNCHANGED <<evalVars, dateVars, extVars, slotOffset, reqKind, reqDate, config,
                   meta, pairs>>

Next ==
    \/ HandleRequest
    \/ \E i \in DOMAIN task : FetchFulfil(i)
    \/ \E i \in DOMAIN task : FetchReject(i)

Spec == Init /\ [][Next]_vars

\* the same handlers on a request whose upstream may answer successfully
\* without a data array
InitSparse ==
    /\ ExtIdle
    /\ EvalIdle
    /\ DateIdle
    /\ slotOffset = 0
    /\ reqKind \in Kinds
    /\ reqDate = IsoOfDay(SparseDay)
    /\ config \in {CfgDistinct, CfgShared}
    /\ pc = "received"
    /\ meta = <<>>
    /\ pairs = <<>>
    /\ task = <<>>
    /\ idxByPair = <<>>
    /\ upstreamLog = <<>>
    /\ responses = <<>>

SpecSparse == InitSparse /\ [][Next]_vars

---------------------------------------------------------------------------
(* Specification SpecInputs: the same handlers on requests whose date      *)
(* parameter is not a calendar day, and on requests under a configuration  *)
(* file that is malformed or lacks the rooms of a category.                *)

\* rooms is not an array
CfgNoRoomsArray == [CfgDistinct EXCEPT !.roomsIsArray = FALSE, !.rooms = <<>>]

\* services.comfort is absent
CfgNoServices ==
    [CfgDistinct EXCEPT !.services.hasComfort = FALSE, !.services.comfort = <<>>]

\* no room of type elite; no room of type comfort
CfgNoElite ==
    Config(<<Room("room-1", "comfort", "g1")>>, EliteDistinct, ComfortDistinct)

CfgNoComfort ==
    Config(<<Room("room-9", "elite", "")>>, EliteDistinct, ComfortDistinct)

\* the elite room has no id; the comfort room has no id
CfgEliteNoId ==
    Config(<<Room("", "elite", ""), Room("room-1", "comfort", "g1")>>,
           EliteDistinct, ComfortDistinct)

CfgComfortNoId ==
    Config(<<Room("room-9", "elite", ""), Room("", "comfort", "g1")>>,
           EliteDistinct, ComfortDistinct)

BadConfigs ==
    {CfgNoRoomsArray, CfgNoServices, CfgNoElite, CfgNoComfort, CfgEliteNoId,
     CfgComfortNoId}

InitInputs ==
    /\ ExtIdle
    /\ EvalIdle
    /\ DateIdle
    /\ slotOffset = 0
    /\ reqKind \in Kinds
    /\ \/ /\ reqDate \in MalformedDates \cup {d.iso : d \in OddDays}
          /\ config \in Configs
       \/ /\ reqDate \in {IsoOf(2025, 1, 20), IsoOf(2025, 3, 1)}
          /\ config \in BadConfigs
    /\ pc = "received"
    /\ meta = <<>>
    /\ pairs = <<>>
    /\ task = <<>>
    /\ idxByPair = <<>>
    /\ upstreamLog = <<>>
    /\ responses = <<>>

SpecInputs == InitInputs /\ [][Next]_vars


---------------------------------------------------------------------------
(* What the claims about a grid request speak of, stated from the request  *)
(* (display date, configuration, offset) and the indexed upstream records, *)
(* with the calendar and clock arithmetic of the ground-truth section      *)

\* HH:MM of a number of minutes after midnight
TimeLabel(mins) ==
    <<Digits[((mins \div 60) \div 10) + 1], Digits[((mins \div 60) % 10) + 1], ":",
      Digits[((mins % 60) \div 10) + 1], Digits[((mins % 60) % 10) + 1]>>

\* the k-th probe time of a slot: start + offset and start + offset + 60
\* minutes, on the 24-hour clock
ProbeTime(start, k) ==
    TimeLabel((MinutesOf(start) + slotOffset + (60 * (k - 1)) + 1440) % 1440)

\* the record that the k-th probe of slot m.start finds for the pair of m
SlotProbe(m, k) ==
    LET key == <<m.service_id, m.room_id>>
        at  == <<IsoOfDay(ExpectedRealDay(DayOfIso(reqDate), m.start)),
                 ProbeTime(m.start, k)>>
    IN  IF key \in DOMAIN idxByPair /\ at \in DOMAIN idxByPair[key]
        THEN idxByPair[key][at]
        ELSE Undefined

SlotVerdict(m) ==
    IF ProbeAbsent(SlotProbe(m, 1)) \/ ProbeAbsent(SlotProbe(m, 2)) THEN "missing"
    ELSE IF ProbeBusy(SlotProbe(m, 1)) \/ ProbeBusy(SlotProbe(m, 2)) THEN "busy"
    ELSE "free"

SlotPrice(m) ==
    IF HasNumericPrice(SlotProbe(m, 1)) THEN SlotProbe(m, 1).price
    ELSE IF HasNumericPrice(SlotProbe(m, 2)) THEN SlotProbe(m, 2).price
    ELSE JsNull

\* the request was answered with a grid of the given kind
GridAnswer(kind) ==
    /\ Len(responses) = 1
    /\ responses[1].result
    /\ responses[1].kind = kind

\* the meta entries (one per room) of the slot that starts at s
EntriesAt(s) == {i \in DOMAIN meta : meta[i].start = s}

VerdictsAt(s, v) == {i \in EntriesAt(s) : SlotVerdict(meta[i]) = v}

ComfortRoomCount ==
    Cardinality({i \in DOMAIN config.rooms : config.rooms[i].type = "comfort"})

SetMin(S) == CHOOSE x \in S : \A y \in S : x <= y

\* the band and day type the claims state for a slot, and the configured
\* service_id of a leaf, for the kind of the request and the room's group
ExpectedBand(start) ==
    IF 480 <= MinutesOf(start) /\ MinutesOf(start) < 960 THEN "day" ELSE "night"

ExpectedDayType(start) ==
    LET r == ExpectedRealDay(DayOfIso(reqDate), start)
    IN  IF DayOfWeek(r.y, r.m, r.d) \in {5, 6, 0} THEN "weekend" ELSE "weekday"

GroupOf(room_id) ==
    LET i == CHOOSE i \in DOMAIN config.rooms : config.rooms[i].id = room_id
    IN  config.rooms[i].group

Leaf(m, dayType, band) ==
    IF reqKind = "elite"
    THEN Lookup(config.services.elite, <<dayType, band>>)
    ELSE Lookup(config.services.comfort, <<GroupOf(m.room_id), dayType, band>>)

---------------------------------------------------------------------------
(* Claims about the grid handlers                                          *)

C3_EliteGrid ==
    GridAnswer("elite") =>
        /\ DOMAIN responses[1].grid = StartSet
        /\ Cardinality(StartSet) = 12
        /\ \A s \in StartSet :
              /\ Cardinality(EntriesAt(s)) = 1
              /\ responses[1].grid[s].total_count = 1
              /\ \A i \in EntriesAt(s) :
                    responses[1].grid[s].free =
                        IF SlotVerdict(meta[i]) = "free" THEN 1 ELSE 0

\* an elite grid with a free, a busy and a missing slot
C3_Witness ==
    /\ GridAnswer("elite")
    /\ \E i, j, k \in DOMAIN meta :
          /\ SlotVerdict(meta[i]) = "free"
          /\ responses[1].grid[meta[i].start].free = 1
          /\ SlotVerdict(meta[j]) = "busy"
          /\ responses[1].grid[meta[j].start].free = 0
          /\ SlotVerdict(meta[k]) = "missing"
          /\ responses[1].grid[meta[k].start].free = 0

\* C4: in every comfort cell min_price is the minimum price over the rooms
\* whose verdict is free and whose selected price is known, null when there
\* is no such room; a free room with unknown price still counts in
\* free_count; busy and missing rooms do not influence min_price.
C4_PooledMinPrice ==
    GridAnswer("comfort") =>
        \A s \in StartSet :
            LET known == {SlotPrice(meta[i]).n :
                             i \in {j \in VerdictsAt(s, "free") :
                                       SlotPrice(meta[j]) # JsNull}}
            IN  /\ responses[1].grid[s].min_price =
                       IF known = {} THEN JsNull ELSE JsNum(SetMin(known))
                /\ responses[1].grid[s].free_count =
                       Cardinality(VerdictsAt(s, "free"))

\* a comfort cell with a free room priced 500, a busy room priced 300 and a
\* missing room priced 100: min_price is 500
C4_Witness ==
    /\ GridAnswer("comfort")
    /\ \E s \in StartSet :
          /\ \E i \in VerdictsAt(s, "free") : SlotPrice(meta[i]) = JsNum(500)
          /\ \E i \in VerdictsAt(s, "busy") : SlotPrice(meta[i]) = JsNum(300)
          /\ \E i \in VerdictsAt(s, "missing") : SlotPrice(meta[i]) = JsNum(100)
          /\ responses[1].grid[s].min_price = JsNum(500)

\* C7: for every slot of a grid request and every offset, the service_id is
\* resolved with band day exactly when the nominal start label is at or
\* after 08:00 and before 16:00, and with band night otherwise; the
\* offset-shifted probe time plays no part.
C7_BandFromNominalLabel ==
    \A i \in DOMAIN meta :
        \E dayType \in DayTypes :
            meta[i].service_id = Leaf(meta[i], dayType, ExpectedBand(meta[i].start))

\* offset -60: the 08:00 slot (first probe 07:00) resolves to a day leaf and
\* the 16:00 slot (first probe 15:00) to a night leaf
C7_Witness ==
    /\ slotOffset = -60
    /\ reqKind = "elite"
    /\ config = CfgDistinct
    /\ \E i, j \in DOMAIN meta :
          /\ meta[i].start = HourLabel(8)
          /\ ProbeTime(meta[i].start, 1) = HourLabel(7)
          /\ meta[i].service_id \in {"el-wd-day", "el-we-day"}
          /\ meta[j].start = HourLabel(16)
          /\ ProbeTime(meta[j].start, 1) = HourLabel(15)
          /\ meta[j].service_id \in {"el-wd-night", "el-we-night"}

\* C8: the service_id of a slot is resolved with day type weekend exactly
\* when the slot's real date (the day before the display date for the
\* starts below 06:00) is a Friday, Saturday or Sunday, and with weekday
\* otherwise.
C8_DayTypeFromRealDate ==
    \A i \in DOMAIN meta :
        \E band \in Bands :
            meta[i].service_id = Leaf(meta[i], ExpectedDayType(meta[i].start), band)

\* under Monday 20 January 2025 the 02:00 slot resolves with the weekend
\* mapping and the 06:00 slot with the weekday mapping
C8_Witness ==
    /\ reqDate = IsoOf(2025, 1, 20)
    /\ reqKind = "elite"
    /\ config = CfgDistinct
    /\ \E i, j \in DOMAIN meta :
          /\ meta[i].start = HourLabel(2)
          /\ meta[i].service_id = "el-we-night"
          /\ meta[j].start = HourLabel(6)
          /\ meta[j].service_id = "el-wd-night"

\* the distinct pairs that the slots of the request resolve to
RequiredPairs == {<<meta[i].service_id, meta[i].room_id>> : i \in DOMAIN meta}

QueriesFor(p) ==
    {j \in DOMAIN upstreamLog :
        <<upstreamLog[j].service_id, upstreamLog[j].room_id>> = p}

\* C9: once a request is in its fetch phase, and whatever then becomes of
\* the fetches, exactly one upstream query has been issued for each
\* distinct (service_id, room_id) pair its slots resolve to and none for
\* any other pair; there is one index per pair, which every slot of the
\* pair reads.
C9_OneQueryPerPair ==
    /\ \A p \in RequiredPairs : Cardinality(QueriesFor(p)) = 1
    /\ Len(upstreamLog) = Cardinality(RequiredPairs)
    /\ DOMAIN idxByPair \subseteq RequiredPairs
    /\ \A i \in DOMAIN task :
          task[i] = "fulfilled" => PairKey(pairs[i]) \in DOMAIN idxByPair

\* 36 slot/room entries resolve to three pairs, three queries were issued,
\* one of them failed and the request has been answered
C9_Witness ==
    /\ Len(meta) = 36
    /\ Cardinality(RequiredPairs) = 3
    /\ Len(upstreamLog) = 3
    /\ \E i \in DOMAIN task : task[i] = "rejected"
    /\ pc = "responded"

\* C10: a grid request is answered at most once, and once when the handler
\* has nothing left to wait for; the response is a grid with all 12 slot
\* cells or an error without a grid; if any of the concurrent fetches has
\* failed the response is an error, whatever the other fetches did or do.
C10_OneResponseGridOrError ==
    /\ Len(responses) <= 1
    /\ (pc = "responded") = (Len(responses) = 1)
    /\ (pc # "received" /\ \A i \in DOMAIN task : task[i] # "pending")
          => Len(responses) = 1
    /\ Len(responses) = 1 =>
          \/ /\ responses[1].result
             /\ responses[1].status = 200
             /\ DOMAIN responses[1].grid = StartSet
             /\ Cardinality(StartSet) = 12
             /\ \A i \in DOMAIN task : task[i] = "fulfilled"
          \/ /\ ~responses[1].result
             /\ responses[1].status >= 400
             /\ responses[1].grid = <<>>
    /\ (\E i \in DOMAIN task : task[i] = "rejected")
          => (Len(responses) = 1 /\ ~responses[1].result)

\* one fetch has failed and been answered with an error while another is
\* still in flight
C10_Witness ==
    /\ \E i, j \in DOMAIN task : task[i] = "rejected" /\ task[j] = "pending"
    /\ Len(responses) = 1
    /\ ~responses[1].result
    /\ responses[1].grid = <<>>


---------------------------------------------------------------------------
(* Claims about the validation of a request's inputs                       *)

\* a string of the form YYYY-MM-DD that names an existing calendar day
IsCalendarDate(s) ==
    /\ Len(s) = 10
    /\ \A i \in {1, 2, 3, 4, 6, 7, 9, 10} : s[i] \in {Digits[k] : k \in 1..10}
    /\ s[5] = "-"
    /\ s[8] = "-"
    /\ LET y == (((DigitVal(s[1]) * 10 + DigitVal(s[2])) * 10) + DigitVal(s[3])) * 10
                    + DigitVal(s[4])
           m == DigitVal(s[6]) * 10 + DigitVal(s[7])
           d == DigitVal(s[9]) * 10 + DigitVal(s[10])
       IN  m \in 1..12 /\ d >= 1 /\ d <= DaysInMonth(y, m)

\* C11 as stated: a grid request whose date does not have the form
\* YYYY-MM-DD, or has it without naming an existing calendar day (month 13,
\* February 30), is answered with the invalid-date error (status 400) and
\* issues no upstream query.
C11_InvalidDateRejected ==
    ~IsCalendarDate(reqDate) =>
        /\ upstreamLog = <<>>
        /\ pc # "awaiting"
        /\ pc = "responded" =>
              /\ ~responses[1].result
              /\ responses[1].status = 400


\* the resolution paths of the request that the configuration does not
\* fill, as the error messages name them: one per slot (and comfort room)
\* whose day type and band have no service_id
Unfilled(table, path) == path \notin DOMAIN table \/ table[path] = ""

ComfortGroups ==
    {config.rooms[i].group : i \in {j \in DOMAIN config.rooms :
                                       config.rooms[j].type = "comfort"}}

MissingPaths ==
    IF reqKind = "elite"
    THEN {<<"Missing elite service_id for", ExpectedDayType(s), ExpectedBand(s)>> :
             s \in {t \in StartSet :
                       Unfilled(config.services.elite,
                                <<ExpectedDayType(t), ExpectedBand(t)>>)}}
    ELSE UNION {{<<"Missing comfort service_id for", g, ExpectedDayType(s),
                   ExpectedBand(s)>> :
                    s \in {t \in StartSet :
                              Unfilled(config.services.comfort,
                                       <<g, ExpectedDayType(t), ExpectedBand(t)>>)}}
                : g \in ComfortGroups}

\* C12: if for some slot (and, for the comfort grid, some room's group) the
\* configuration has no service_id for the resolved day type and band, the
\* request issues no upstream query and is answered with an error that
\* names one of the missing paths, without a grid; no default service_id
\* stands in for the missing one.
C12_MissingMappingFails ==
    MissingPaths # {} =>
        /\ upstreamLog = <<>>
        /\ meta = <<>>
        /\ pc # "awaiting"
        /\ pc = "responded" =>
              /\ ~responses[1].result
              /\ responses[1].grid = <<>>
              /\ responses[1].status = 500
              /\ responses[1].error \in MissingPaths

\* a comfort request under a weekday whose group has no weekday/day leaf,
\* answered with the error naming g1/weekday/day
C12_Witness ==
    /\ reqKind = "comfort"
    /\ config = CfgMissing
    /\ pc = "responded"
    /\ upstreamLog = <<>>
    /\ responses[1].error =
           <<"Missing comfort service_id for", "g1", "weekday", "day">>


\* the rooms of a category in the configuration
RoomsOfType(type) ==
    {config.rooms[i] : i \in {j \in DOMAIN config.rooms : config.rooms[j].type = type}}

\* the configuration is malformed, or lacks what the request needs
ConfigUnusable ==
    \/ ~config.roomsIsArray
    \/ ~config.services.hasElite
    \/ ~config.services.hasComfort
    \/ RoomsOfType(reqKind) = {}
    \/ \E r \in RoomsOfType(reqKind) : r.id = ""

\* C13 as stated: if the configuration has no rooms array or lacks a
\* services section, or a room of the requested category has no id, or the
\* requested category has no room, the request is answered with an error
\* and no grid and never queries upstream.
C13_BadConfigFails ==
    ConfigUnusable =>
        /\ upstreamLog = <<>>
        /\ pc # "awaiting"
        /\ pc = "responded" =>
              /\ ~responses[1].result
              /\ responses[1].grid = <<>>


---------------------------------------------------------------------------
(* Claims about upstream failures                                          *)

\* the fan-out tasks whose upstream call failed, and the error a failed
\* upstream outcome stands for: its status (none for a network failure)
Rejected == {i \in DOMAIN task : task[i] = "rejected"}

Range(f) == {f[x] : x \in DOMAIN f}

\* everything the error response says: the parts of its message and the
\* message of its upstream details
ResponseWords(r) == Range(r.error) \cup {r.upstream.error_message}

\* C14 as stated: every upstream failure during a grid request (HTTP error
\* status, in-band result:false, network failure) is answered with one
\* error that carries the failing (service_id, room_id) pair together with
\* the original status or message.
C14_FailureCarriesPair ==
    Rejected # {} =>
        /\ Len(responses) = 1
        /\ ~responses[1].result
        /\ \E i \in Rejected :
              /\ pairs[i].service_id \in ResponseWords(responses[1])
              /\ pairs[i].room_id \in ResponseWords(responses[1])

\* what the upstream answered to the query of task i: a successful HTTP
\* status with result:false in the body, or an HTTP status outside 2xx
InBandFailure(i) ==
    /\ upstreamLog[i].reply.transport = "ok"
    /\ upstreamLog[i].reply.http \in 200..299
    /\ upstreamLog[i].reply.body.result = "false"

HttpFailure(i) ==
    /\ upstreamLog[i].reply.transport = "ok"
    /\ upstreamLog[i].reply.http \notin 200..299

\* C15: a query answered with a successful HTTP status and result:false
\* fails its fetch: the task is rejected, its pair gets no index (so the
\* answer is never read as an empty or valid occupancy list) and the
\* request is answered with an error and no grid; when only such answers
\* failed the status is 502 with the upstream's error as details, and when
\* only HTTP-level failures happened the status is the upstream's own.
C15_ResultFalseIsFailure ==
    /\ \A i \in DOMAIN upstreamLog :
          InBandFailure(i) =>
              /\ task[i] = "rejected"
              /\ PairKey(pairs[i]) \notin DOMAIN idxByPair
              /\ Len(responses) = 1
              /\ ~responses[1].result
              /\ responses[1].grid = <<>>
    /\ (Rejected # {} /\ \A i \in Rejected : InBandFailure(i)) =>
          /\ responses[1].status = 502
          /\ responses[1].upstream.kind = "upstream_error"
          /\ responses[1].upstream.error_message = "Access denied"
    /\ (Rejected # {} /\ \A i \in Rejected : HttpFailure(i)) =>
          /\ responses[1].status # 502
          /\ \E i \in Rejected :
                responses[1].status = upstreamLog[i].reply.http
          /\ responses[1].upstream.kind = "http_body"

\* one query answered 200 with result:false after another was fulfilled,
\* and the request answered 502
C15_Witness ==
    /\ \E i \in Rejected : InBandFailure(i)
    /\ \E j \in DOMAIN task : task[j] = "fulfilled"
    /\ \A i \in Rejected : InBandFailure(i)
    /\ pc = "responded"
    /\ responses[1].status = 502

---------------------------------------------------------------------------
(* Claims about the fan-out and the join                                   *)

\* the upstream snapshot of a request as one index per pair, built from
\* what the upstream answered to each pair's query and from nothing else
SnapshotIndex ==
    [k \in {PairKey(pairs[i]) : i \in {j \in DOMAIN task : task[j] = "fulfilled"}} |->
        LET i == CHOOSE j \in DOMAIN pairs : PairKey(pairs[j]) = k
        IN  fetchIndexedRentalTimes(apiGet(upstreamLog[i].reply).json)]

\* the grid that the display date, the configuration and the snapshot
\* determine
SnapshotGrid ==
    IF reqKind = "elite" THEN eliteGrid(meta, SnapshotIndex)
    ELSE comfortGrid(config, splitRooms(config.rooms).comfort, reqDate,
                     SnapshotIndex)

\* the indexes held for the pairs are those of the pairs' own answers
\* and, once a grid is returned, the grid is the one the snapshot
\* determines
IndexIsSnapshot ==
    /\ \A i, j \in DOMAIN pairs : PairKey(pairs[i]) = PairKey(pairs[j]) => i = j
    /\ idxByPair = SnapshotIndex
    /\ GridAnswer(reqKind) => responses[1].grid = SnapshotGrid

\* C16: at every moment of a grid request every pair's index is the one
\* its own upstream answer gives, whatever the other tasks did, and the
\* grid returned is the one that display date, configuration and snapshot
\* determine, in every completion order; in every step the indexes
\* already written stay as they are and at most one index is written,
\* that of the settling task's own pair.
C16_GridDeterministic ==
    /\ []IndexIsSnapshot
    /\ [][/\ \A k \in DOMAIN idxByPair :
                k \in DOMAIN idxByPair' /\ idxByPair'[k] = idxByPair[k]
          /\ \A k \in DOMAIN idxByPair' \ DOMAIN idxByPair :
                \E i \in DOMAIN task :
                   /\ task[i] = "pending" /\ task'[i] = "fulfilled"
                   /\ k = PairKey(pairs[i])
                   /\ DOMAIN idxByPair' = DOMAIN idxByPair \cup {k}]_vars

\* a grid returned after two or more fetches whose answers differ and
\* hold records
C16_Witness ==
    /\ GridAnswer(reqKind)
    /\ \E i, j \in DOMAIN pairs :
          /\ i < j
          /\ idxByPair[PairKey(pairs[i])] # idxByPair[PairKey(pairs[j])]
          /\ idxByPair[PairKey(pairs[i])] # <<>>
          /\ idxByPair[PairKey(pairs[j])] # <<>>

\* the probe keys of a meta entry that its pair's index does not hold
AbsentProbes(m) ==
    {k \in 1..2 :
        /\ PairKey(m) \in DOMAIN idxByPair
        /\ <<IsoOfDay(ExpectedRealDay(DayOfIso(reqDate), m.start)), ProbeTime(m.start, k)>>
              \notin DOMAIN idxByPair[PairKey(m)]}

\* C17: while fetches of a request are outstanding nothing has been
\* answered; a grid is answered only when every fetch of the request has
\* been fulfilled, so every slot's pair has an index, and a slot is
\* missing (elite cells say so with slot_missing) only when a probe key is
\* absent from the index of its pair.
C17_JoinBarrier ==
    /\ pc = "awaiting" =>
          /\ responses = <<>>
          /\ \E i \in DOMAIN task : task[i] = "pending"
          /\ \A i \in DOMAIN task : task[i] # "rejected"
    /\ (responses # <<>> /\ responses[1].result) =>
          /\ task # <<>>
          /\ \A i \in DOMAIN task : task[i] = "fulfilled"
          /\ \A i \in DOMAIN meta : PairKey(meta[i]) \in DOMAIN idxByPair
          /\ \A i \in DOMAIN meta :
                SlotVerdict(meta[i]) = "missing" <=> AbsentProbes(meta[i]) # {}
          /\ reqKind = "elite" =>
                \A i \in DOMAIN meta :
                    responses[1].grid[meta[i].start].reason = "slot_missing"
                        <=> AbsentProbes(meta[i]) # {}

\* an elite grid of a request with several fetches, with a slot_missing
\* cell and a cell that is not
C17_Witness ==
    /\ GridAnswer("elite")
    /\ Len(task) >= 2
    /\ \E i, j \in DOMAIN meta :
          /\ responses[1].grid[meta[i].start].reason = "slot_missing"
          /\ responses[1].grid[meta[j].start].reason # "slot_missing"

---------------------------------------------------------------------------
(* Claims about the upstream window and the probe keys                     *)

\* the calendar day after a day
NextDay(y, m, d) ==
    IF d < DaysInMonth(y, m) THEN [y |-> y, m |-> m, d |-> d + 1]
    ELSE IF m < 12 THEN [y |-> y, m |-> m + 1, d |-> 1]
    ELSE [y |-> y + 1, m |-> 1, d |-> 1]

DayBefore(c) == PrevDay(c.y, c.m, c.d)
DayAfter(c) == NextDay(c.y, c.m, c.d)

\* C18: every upstream query of a request for display date D asks for
\* start_date = D-1 and end_date = D+1, and the date of the probe keys of
\* every slot (the slot's real date, for each offset) is a day from
\* start_date to end_date of every query.
C18_WindowCoversProbes ==
    LET D       == DayOfIso(reqDate)
        lo      == IsoOfDay(DayBefore(D))
        hi      == IsoOfDay(DayAfter(D))
        windows == {<<upstreamLog[q].start_date, upstreamLog[q].end_date>> :
                        q \in DOMAIN upstreamLog}
        probed  == {meta[i].realDate : i \in DOMAIN meta}
    IN  /\ windows \subseteq {<<lo, hi>>}
        /\ probed \subseteq {lo, reqDate, hi}
        /\ \A r \in probed : \A w \in windows :
              StrGeq(r, w[1]) /\ StrGeq(w[2], r)

\* a grid answered for 1 January 2025: the queries asked for 2024-12-31
\* to 2025-01-02 and the early slots were looked up on 2024-12-31
C18_Witness ==
    /\ reqDate = IsoOf(2025, 1, 1)
    /\ GridAnswer(reqKind)
    /\ upstreamLog # <<>>
    /\ upstreamLog[1].start_date = IsoOf(2024, 12, 31)
    /\ upstreamLog[1].end_date = IsoOf(2025, 1, 2)
    /\ \E i \in DOMAIN meta : meta[i].realDate = IsoOf(2024, 12, 31)
    /\ \E i \in DOMAIN meta : meta[i].realDate = reqDate

---------------------------------------------------------------------------
(* Specification SpecProbe: the per-slot date and probe keys of the        *)
(* handlers for the display dates of the grid requests and a wider range   *)
(* of SLOT_OFFSET_MINUTES values (any number the environment gives)        *)

WideOffsets == {0, 60, -60, 30, 1440, -1440, -1500}

InitProbe ==
    /\ ExtIdle
    /\ EvalIdle
    /\ ReqIdle
    /\ slotOffset \in WideOffsets
    /\ dtDate \in ReqDays
    /\ dtStart \in StartSet
    /\ dtBackend = NoBackend
    /\ dtFrontend = NoFrontend

SpecProbe == InitProbe /\ [][NextDate]_vars

\* an HH:MM value from 00:00 to 23:59
IsClockTime(t) ==
    /\ Len(t) = 5
    /\ t[3] = ":"
    /\ \A k \in {1, 2, 4, 5} : IsDigit(t[k])
    /\ DigitVal(t[1]) * 10 + DigitVal(t[2]) <= 23
    /\ DigitVal(t[4]) * 10 + DigitVal(t[5]) <= 59

\* C19 as stated: for every slot start s and configured offset o the two
\* keys looked up are (real_date, s + o) and (real_date, s + 60min + o),
\* with the times taken modulo 24 hours and always valid HH:MM values in
\* 00:00..23:59, and with real_date as the date even when a time wraps
\* past midnight.
C19_ProbeKeys ==
    dtBackend # NoBackend =>
        /\ IsClockTime(dtBackend.key1[2])
        /\ IsClockTime(dtBackend.key2[2])
        /\ dtBackend.key1 = <<IsoOfDay(ExpectedRealDay(dtDate, dtStart)),
                              ProbeTime(dtStart, 1)>>
        /\ dtBackend.key2 = <<IsoOfDay(ExpectedRealDay(dtDate, dtStart)),
                              ProbeTime(dtStart, 2)>>

---------------------------------------------------------------------------
(* Claims about the classification of one record                           *)

\* a rental identifier that is null, absent, the empty string or the
\* number zero, told by its type and value
NoRental(rid) ==
    \/ rid.t = "null"
    \/ rid.t = "undefined"
    \/ rid.t = "string" /\ rid.s = ""
    \/ rid.t = "number" /\ rid.n = 0

Classified(it, slot) ==
    /\ slot.status = "free" <=> (it.found /\ NoRental(it.rental_id))
    /\ slot.status = "busy" <=> (it.found /\ ~NoRental(it.rental_id))
    /\ slot.status = "missing" <=> ~it.found

\* C20: a record is classified free exactly when its rental identifier is
\* null, absent, the empty string or the number zero; a record with any
\* other rental identifier (the string "0" too) is classified busy, and an
\* absent record is classified missing, never free.
C20_FreeClassification ==
    evPc \in {"evaluate", "done"} =>
        /\ Classified(evIt1, evSlot1)
        /\ Classified(evIt2, evSlot2)

\* a record with rental identifier "0" classified busy beside a record
\* with rental identifier 0 classified free
C20_Witness ==
    /\ evPc = "evaluate"
    /\ evIt1.found /\ evIt1.rental_id = JsStr("0")
    /\ evSlot1.status = "busy"
    /\ evIt2.found /\ evIt2.rental_id = JsNum(0)
    /\ evSlot2.status = "free"

---------------------------------------------------------------------------
(* Specification SpecIndex: fetchIndexedRentalTimes' indexing loop applied *)
(* to every list of at most MaxItems upstream records drawn from records   *)
(* whose date_time parses, parses to the key of another, or does not parse *)

MaxItems == 3

IndexDay == [y |-> 2025, m |-> 1, d |-> 20]

IndexRecords ==
    { Rec(IndexDay, 14, " ", <<>>, JsNull, JsNum(500)),
      Rec(IndexDay, 14, "T", Seconds, JsStr("abc123"), JsNum(700)),
      Rec(IndexDay, 15, " ", <<>>, JsNum(7), JsUndef),
      Rec(IndexDay, 14, "x", <<>>, JsNull, JsNum(1)),
      Item(<<"x">>, JsNull, JsNum(2)),
      Item(<<>>, JsStr("abc123"), JsNum(3)) }

RECURSIVE ListsUpTo(_, _)
ListsUpTo(S, n) ==
    IF n = 0 THEN {<<>>}
    ELSE LET shorter == ListsUpTo(S, n - 1)
         IN  shorter \cup {Append(l, x) : l \in shorter, x \in S}

InitIndex ==
    /\ EvalIdle
    /\ DateIdle
    /\ ReqIdle
    /\ slotOffset = 0
    /\ reqs = ReqsIdle
    /\ ui = UiIdle
    /\ ix \in {[pc |-> "fetched", items |-> l, byKey |-> <<>>] :
                  l \in ListsUpTo(IndexRecords, MaxItems)}

\* normalizeRentalTimesPayload and the loop over the items of a response
\* that apiGet has returned
IndexResponse ==
    /\ ix.pc = "fetched"
    /\ ix' = [ix EXCEPT !.pc = "indexed",
                        !.byKey = fetchIndexedRentalTimes(DataBody(ix.items))]
    /\ UNCHANGED <<evalVars, dateVars, slotOffset, reqVars, reqs, ui>>

NextIndex == IndexResponse

SpecIndex == InitIndex /\ [][NextIndex]_vars

---------------------------------------------------------------------------
(* Claims about the index                                                  *)

\* a date_time that starts with YYYY-MM-DD, a blank or T, and HH:MM, and
\* the (date, time) pair it then stands for
DateShape(d) ==
    /\ Len(d) = 10
    /\ d[5] = "-" /\ d[8] = "-"
    /\ \A k \in (1..10) \ {5, 8} : IsDigit(d[k])

ClockShape(t) ==
    /\ Len(t) = 5
    /\ t[3] = ":"
    /\ \A k \in {1, 2, 4, 5} : IsDigit(t[k])

Parses(it) ==
    /\ Len(it.date_time) >= 16
    /\ DateShape(SubSeq(it.date_time, 1, 10))
    /\ it.date_time[11] \in {" ", "T"}
    /\ ClockShape(SubSeq(it.date_time, 12, 16))

KeyOf(it) == <<SubSeq(it.date_time, 1, 10), SubSeq(it.date_time, 12, 16)>>

\* a list without its i-th element
Without(l, i) == SubSeq(l, 1, i - 1) \o SubSeq(l, i + 1, Len(l))

\* the index of a list of records
IndexOf(l) == fetchIndexedRentalTimes(DataBody(l))

\* C21 as stated: every record whose date_time does not parse is dropped
\* without failing the fetch, every record that does parse is retrievable
\* under its (date, time) key, and a dropped record never changes the
\* entry stored for any other key.
C21_EveryParsedRetrievable ==
    ix.pc = "indexed" =>
        /\ \A i \in DOMAIN ix.items :
              Parses(ix.items[i]) =>
                  /\ KeyOf(ix.items[i]) \in DOMAIN ix.byKey
                  /\ ix.byKey[KeyOf(ix.items[i])] = ix.items[i]
        /\ \A i \in DOMAIN ix.items :
              ~Parses(ix.items[i]) => ix.byKey = IndexOf(Without(ix.items, i))

\* C21, amended: the fetch always ends with an index; its keys are the
\* (date, time) pairs of the records that parse; under each key it holds
\* the last record of the response that parses to that key (an earlier
\* record with the same key is replaced); a record that does not parse is
\* dropped and the index is the one the response gives without it.
C21_LastParsedRetrievable ==
    ix.pc = "indexed" =>
        /\ DOMAIN ix.byKey =
              {KeyOf(ix.items[i]) : i \in {j \in DOMAIN ix.items : Parses(ix.items[j])}}
        /\ \A i \in DOMAIN ix.items :
              Parses(ix.items[i]) =>
                  LET same == {j \in DOMAIN ix.items :
                                  /\ Parses(ix.items[j])
                                  /\ KeyOf(ix.items[j]) = KeyOf(ix.items[i])}
                      last == CHOOSE j \in same : \A k \in same : k <= j
                  IN  ix.byKey[KeyOf(ix.items[i])] = ix.items[last]
        /\ \A i \in DOMAIN ix.items :
              ~Parses(ix.items[i]) => ix.byKey = IndexOf(Without(ix.items, i))

\* a response with a record that does not parse between two records that
\* parse to the same key: the index holds the later of the two
C21_Witness ==
    /\ ix.pc = "indexed"
    /\ Len(ix.items) = 3
    /\ Parses(ix.items[1]) /\ ~Parses(ix.items[2]) /\ Parses(ix.items[3])
    /\ KeyOf(ix.items[1]) = KeyOf(ix.items[3])
    /\ ix.items[1] # ix.items[3]
    /\ DOMAIN ix.byKey = {KeyOf(ix.items[3])}
    /\ ix.byKey[KeyOf(ix.items[3])] = ix.items[3]

---------------------------------------------------------------------------
(* Claims about the pooled counts                                          *)

\* C23: in every cell of a successful comfort grid free_count + busy_count
\* = total_count = the number of comfort rooms of the configuration, and
\* busy_count is the number of rooms whose verdict is not free (busy or
\* missing).
C23_CountsAddUp ==
    GridAnswer("comfort") =>
        \A s \in StartSet :
            LET cell == responses[1].grid[s]
            IN  /\ cell.free_count + cell.busy_count = cell.total_count
                /\ cell.total_count = ComfortRoomCount
                /\ cell.total_count = Cardinality(EntriesAt(s))
                /\ cell.busy_count =
                       Cardinality(EntriesAt(s) \ VerdictsAt(s, "free"))

\* a comfort cell of three rooms: one free, one busy and one missing
C23_Witness ==
    /\ GridAnswer("comfort")
    /\ \E s \in StartSet :
          /\ Cardinality(VerdictsAt(s, "free")) = 1
          /\ Cardinality(VerdictsAt(s, "busy")) = 1
          /\ Cardinality(VerdictsAt(s, "missing")) = 1
          /\ responses[1].grid[s].free_count = 1
          /\ responses[1].grid[s].busy_count = 2
          /\ responses[1].grid[s].total_count = 3

---------------------------------------------------------------------------
(* Claims about successful responses without records                       *)

\* the upstream answered the query of task i with a successful status and
\* no result:false, and the body is not JSON or has no data array
NoDataReply(i) ==
    /\ upstreamLog[i].reply.transport = "ok"
    /\ upstreamLog[i].reply.http \in 200..299
    /\ upstreamLog[i].reply.body.result # "false"
    /\ ~(upstreamLog[i].reply.body.isJson /\ upstreamLog[i].reply.body.dataIsArray)

\* the meta entries (slots, per room) served by the pair of task i
ServedBy(i) == {k \in DOMAIN meta : PairKey(meta[k]) = PairKey(pairs[i])}

\* C28: a successful response without a data array, or with a body that is
\* not JSON, fulfils its fetch with an empty index; when every fetch is
\* fulfilled the request succeeds, and every slot served by such a pair is
\* missing: its elite cell has free 0 and reason slot_missing, and in the
\* comfort cell the room is not among the rooms counted free.
C28_NoDataIsEmptyIndex ==
    /\ \A i \in DOMAIN upstreamLog :
          NoDataReply(i) =>
              /\ task[i] = "fulfilled"
              /\ idxByPair[PairKey(pairs[i])] = <<>>
    /\ (task # <<>> /\ \A i \in DOMAIN task : task[i] = "fulfilled") =>
          GridAnswer(reqKind)
    /\ GridAnswer(reqKind) =>
          \A i \in DOMAIN upstreamLog :
              NoDataReply(i) =>
                  \A k \in ServedBy(i) :
                      /\ SlotVerdict(meta[k]) = "missing"
                      /\ reqKind = "elite" =>
                            /\ responses[1].grid[meta[k].start].free = 0
                            /\ responses[1].grid[meta[k].start].reason = "slot_missing"
                      /\ reqKind = "comfort" =>
                            /\ k \notin VerdictsAt(meta[k].start, "free")
                            /\ responses[1].grid[meta[k].start].free_count
                                  = Cardinality(VerdictsAt(meta[k].start, "free"))

\* a comfort grid answered although one pair's response was not JSON and
\* another's data was not an array, with a cell where a third room is free
C28_Witness ==
    /\ GridAnswer("comfort")
    /\ \E i, j \in DOMAIN upstreamLog :
          /\ NoDataReply(i) /\ ~upstreamLog[i].reply.body.isJson
          /\ NoDataReply(j) /\ upstreamLog[j].reply.body.isJson
          /\ upstreamLog[j].reply.body.data # <<>>
    /\ \E s \in StartSet :
          /\ responses[1].grid[s].free_count = 1
          /\ responses[1].grid[s].busy_count = 2

\* an elite grid answered from responses that are all without data
C28_EliteWitness ==
    /\ GridAnswer("elite")
    /\ \A i \in DOMAIN upstreamLog : NoDataReply(i)
    /\ \A s \in StartSet : responses[1].grid[s].reason = "slot_missing"

---------------------------------------------------------------------------
(* Specification SpecConcurrent: two grid requests handled at the same     *)
(* time by the same process.  reqs.file is rooms_services.json, which each *)
(* request loads; reqs.maps holds the Map objects the handlers create;     *)
(* reqs.run[r] holds the locals of the handler invocation r.  The steps of *)
(* the two invocations and of their fetches interleave freely.             *)

Requests == 1..2

\* the upstream answers of the concurrent requests: records with free
\* hours, records with a rented hour, and an HTTP failure
ConcurrentReplies ==
    {r \in Replies :
        /\ r.date \in {IsoOf(2025, 1, 20), IsoOf(2025, 1, 21)}
        /\ \/ r.reply.http = 503
           \/ /\ r.reply.http = 200
              /\ r.reply.body.result = "true"
              /\ Len(r.reply.body.data) = 3
              /\ r.reply.body.data[1].price \in {JsNum(500), JsNum(300)}}

NewRun(kind, date) ==
    [kind |-> kind, date |-> date, pc |-> "received", meta |-> <<>>,
     pairs |-> <<>>, task |-> <<>>, log |-> <<>>, responses |-> <<>>]

InitConcurrent ==
    /\ EvalIdle
    /\ DateIdle
    /\ ReqIdle
    /\ slotOffset = 0
    /\ ix = IxIdle
    /\ ui = UiIdle
    /\ \E k1, k2 \in Kinds, d2 \in {IsoOf(2025, 1, 20), IsoOf(2025, 1, 21)} :
          reqs = [file |-> CfgShared,
                  maps |-> <<<<>>, <<>>>>,
                  run  |-> <<NewRun(k1, IsoOf(2025, 1, 20)), NewRun(k2, d2)>>]

\* const idxByPair = new Map() in the handler: each invocation has its own
idxByPairShared(r) == 1

idxByPairOf(r) == r

\* invocation r after its fetches have started for the pairs p
StartFetchesOf(r, e, p) ==
    [reqs EXCEPT
       !.maps[idxByPairOf(r)] = <<>>,
       !.run[r].meta = e.meta,
       !.run[r].pairs = p,
       !.run[r].task = [i \in 1..Len(p) |-> "pending"],
       !.run[r].log = [i \in 1..Len(p) |->
                          Query(p[i], start_date(reqs.run[r].date),
                                end_date(reqs.run[r].date))],
       !.run[r].pc = "awaiting"]

\* invocation r after its handlerEntry e
EnterHandlerOf(r, e) ==
    IF e.failed
    THEN [reqs EXCEPT !.run[r].pc = "responded",
                      !.run[r].responses = <<e.response>>]
    ELSE StartFetchesOf(r, e, pairsValues(e.meta))

\* HandleRequest of invocation r
HandleRequestOf(r) ==
    /\ reqs.run[r].pc = "received"
    /\ reqs' = EnterHandlerOf(r, handlerEntry(reqs.run[r].kind,
                                              reqs.run[r].date, reqs.file))
    /\ UNCHANGED <<evalVars, dateVars, slotOffset, reqVars, ix, ui>>

\* Continue for invocation r: the responses it sends when task i settles
\* with the answer rep and the Promise.all it awaits settles with it
ContinueOf(r, task2, maps2, rep) ==
    LET run    == reqs.run[r]
        before == promiseAll(run.task)
        after  == promiseAll(task2)
    IN  IF run.pc = "awaiting" /\ before = "pending" /\ after = "fulfilled"
        THEN <<GridResponse(run.kind, run.date,
                 IF run.kind = "elite"
                 THEN eliteGrid(run.meta, maps2[idxByPairOf(r)])
                 ELSE comfortGrid(reqs.file, splitRooms(reqs.file.rooms).comfort,
                                  run.date, maps2[idxByPairOf(r)]))>>
        ELSE IF run.pc = "awaiting" /\ before = "pending" /\ after = "rejected"
        THEN <<CatchResponse(rep.got)>>
        ELSE <<>>

\* the invocations after task i of invocation r has settled with the
\* answer rep: task2 and maps2 are r's tasks and the index maps after it,
\* sent the responses r sends at that moment
SettledOf(r, i, task2, maps2, rep, sent) ==
    [reqs EXCEPT
       !.maps = maps2,
       !.run[r].task = task2,
       !.run[r].log[i].reply = rep.reply,
       !.run[r].responses = @ \o sent,
       !.run[r].pc = IF sent # <<>> THEN "responded" ELSE @]

SettleTaskOf(r, i, task2, maps2, rep) ==
    SettledOf(r, i, task2, maps2, rep, ContinueOf(r, task2, maps2, rep))

\* FetchFulfil of task i of invocation r
FetchFulfilOf(r, i) ==
    /\ i \in DOMAIN reqs.run[r].task
    /\ reqs.run[r].task[i] = "pending"
    /\ \E rep \in ConcurrentReplies :
          /\ rep.date = reqs.run[r].date
          /\ ~rep.got.threw
          /\ reqs' = SettleTaskOf(r, i,
                        [reqs.run[r].task EXCEPT ![i] = "fulfilled"],
                        [reqs.maps EXCEPT ![idxByPairOf(r)] =
                            setIndex(@, reqs.run[r].pairs[i], rep.byKey)],
                        rep)
    /\ UNCHANGED <<evalVars, dateVars, slotOffset, reqVars, ix, ui>>

\* FetchReject of task i of invocation r
FetchRejectOf(r, i) ==
    /\ i \in DOMAIN reqs.run[r].task
    /\ reqs.run[r].task[i] = "pending"
    /\ \E rep \in ConcurrentReplies :
          /\ rep.date = reqs.run[r].date
          /\ rep.got.threw
          /\ reqs' = SettleTaskOf(r, i,
                        [reqs.run[r].task EXCEPT ![i] = "rejected"],
                        reqs.maps, rep)
    /\ UNCHANGED <<evalVars, dateVars, slotOffset, reqVars, ix, ui>>

NextConcurrent ==
    \/ \E r \in Requests : HandleRequestOf(r)
    \/ \E r \in Requests : \E i \in DOMAIN reqs.run[r].task : FetchFulfilOf(r, i)
    \/ \E r \in Requests : \E i \in DOMAIN reqs.run[r].task : FetchRejectOf(r, i)

SpecConcurrent == InitConcurrent /\ [][NextConcurrent]_vars

---------------------------------------------------------------------------
(* Claims about concurrent requests                                        *)

\* what invocation r has when run alone on its own inputs and on the
\* answers its own queries got: its meta and pairs, the index of each
\* fulfilled pair, and its grid
AloneMeta(r) == handlerEntry(reqs.run[r].kind, reqs.run[r].date, CfgShared).meta

AloneIndex(r) ==
    LET run  == reqs.run[r]
        done == {i \in DOMAIN run.task : run.task[i] = "fulfilled"}
    IN  [k \in {PairKey(run.pairs[i]) : i \in done} |->
            LET i == CHOOSE j \in DOMAIN run.pairs : PairKey(run.pairs[j]) = k
            IN  fetchIndexedRentalTimes(apiGet(run.log[i].reply).json)]

AloneGrid(r) ==
    IF reqs.run[r].kind = "elite" THEN eliteGrid(AloneMeta(r), AloneIndex(r))
    ELSE comfortGrid(CfgShared, splitRooms(CfgShared.rooms).comfort,
                     reqs.run[r].date, AloneIndex(r))

IsolatedRun(r) ==
    LET run == reqs.run[r]
    IN  /\ run.pc # "received" =>
              /\ run.meta = AloneMeta(r)
              /\ run.pairs = pairsValues(AloneMeta(r))
              /\ reqs.maps[r] = AloneIndex(r)
        /\ run.pc = "awaiting" => run.responses = <<>>
        /\ run.pc = "responded" =>
              /\ Len(run.responses) = 1
              /\ IF \E i \in DOMAIN run.task : run.task[i] = "rejected"
                 THEN \E i \in DOMAIN run.task :
                         /\ run.task[i] = "rejected"
                         /\ run.responses[1] = CatchResponse(apiGet(run.log[i].reply))
                 ELSE /\ \A i \in DOMAIN run.task : run.task[i] = "fulfilled"
                      /\ run.responses[1] =
                            GridResponse(run.kind, run.date, AloneGrid(r))

\* C22: of two requests whose steps and fetches interleave in any way,
\* each has the meta, the pairs, the per-pair indexes and the response
\* that its own date, endpoint and upstream answers give when it runs
\* alone, and no step changes the configuration (the room list with it).
C22_RequestsIsolated ==
    /\ [](\A r \in Requests : IsolatedRun(r))
    /\ [][reqs'.file = reqs.file]_vars

\* two requests of the same endpoint for different dates, both answered
\* with grids, and the grids differ
C22_Witness ==
    /\ reqs.run[1].pc = "responded" /\ reqs.run[2].pc = "responded"
    /\ reqs.run[1].date # reqs.run[2].date
    /\ reqs.run[1].responses[1].result /\ reqs.run[2].responses[1].result
    /\ reqs.run[1].responses[1].grid # reqs.run[2].responses[1].grid
    /\ reqs.run[1].kind = reqs.run[2].kind

---------------------------------------------------------------------------
(* Schedule UI (App.tsx, LeftScheduleV4.tsx, utils/date.ts)                *)
(*                                                                         *)
(* Instants are whole minutes.  The browser clock is an index into Clock,  *)
(* a list of venue-local wall instants; Date.now() and todayIso() read it. *)
(* A render happens after every state change and fixes the values the      *)
(* click handlers close over (ui.shownAt is the instant of that render).   *)
(* The effects of a date change run before any other event is handled.     *)

COMFORT_TOTAL == 8
ELITE_TOTAL == 1

\* Number of date changes in one behaviour
MaxChanges == 2

\* days from 1970-01-01 to the calendar day c, counted by the calendar
\* leap years before year y: every 4th, not every 100th, every 400th
LeapsBefore(y) == ((y - 1) \div 4) - ((y - 1) \div 100) + ((y - 1) \div 400)

DaysOfYears(y) == (y - 1970) * 365 + LeapsBefore(y) - LeapsBefore(1970)

RECURSIVE DaysOfMonths(_, _)
DaysOfMonths(y, m) ==
    IF m <= 1 THEN 0 ELSE DaysOfMonths(y, m - 1) + DaysInMonth(y, m - 1)

EpochDay(c) == DaysOfYears(c.y) + DaysOfMonths(c.y, c.m) + c.d - 1

Clock ==
    LET d20 == [y |-> 2025, m |-> 1, d |-> 20]
        d21 == [y |-> 2025, m |-> 1, d |-> 21]
    IN  << [day |-> d20, minute |-> 120],
           [day |-> d20, minute |-> 121],
           [day |-> d21, minute |-> 30] >>

\* Date.now() at clock index k, in minutes: the venue is at UTC+3
DateNow(k) == EpochDay(Clock[k].day) * 1440 + Clock[k].minute - 180

\* todayIso(): the venue-local calendar date of the current instant
todayIso(k) == IsoOfDay(Clock[k].day)

\* /^(\d{2}):(\d{2})$/
MatchesHHMM(s) ==
    /\ Len(s) = 5
    /\ \A i \in {1, 2, 4, 5} : IsDigit(s[i])
    /\ s[3] = ":"

kaz_local_to_utc_msWrongSign(dateIso, hhmm) ==
    LET p  == parseIso(dateIso)
        hh == IF MatchesHHMM(hhmm) THEN Number(SubSeq(hhmm, 1, 2)) ELSE 0
        mi == IF MatchesHHMM(hhmm) THEN Number(SubSeq(hhmm, 4, 5)) ELSE 0
    IN  DateUTC(p.y, p.m - 1, p.d) * 1440 + hh * 60 + mi + 180

\* Date.UTC(y, m - 1, d, hh, mi, 0) - 180 * 60000, in minutes
kaz_local_to_utc_ms(dateIso, hhmm) ==
    LET p  == parseIso(dateIso)
        hh == IF MatchesHHMM(hhmm) THEN Number(SubSeq(hhmm, 1, 2)) ELSE 0
        mi == IF MatchesHHMM(hhmm) THEN Number(SubSeq(hhmm, 4, 5)) ELSE 0
    IN  DateUTC(p.y, p.m - 1, p.d) * 1440 + hh * 60 + mi - 180

\* slotUtcMs < Date.now(), with Date.now() read at clock index k
isPastSlotKazan(realDateIso, startHHMM, k) ==
    kaz_local_to_utc_ms(realDateIso, startHHMM) < DateNow(k)

cellStartIso(realDateIso, startHHMM) ==
    realDateIso \o <<"T">> \o startHHMM \o <<":", "0", "0">>

tariffSlotStartIsoNoRollback(dateIso, startHHMM) ==
    dateIso \o <<"T">> \o startHHMM \o <<":", "0", "0">>

tariffSlotStartIso(dateIso, startHHMM) ==
    tariffSlotDateIso(dateIso, startHHMM) \o <<"T">> \o startHHMM
        \o <<":", "0", "0">>

\* weekDays: the seven days of the strip
weekDaysFromOne(stripStartIso) == [i \in 0..6 |-> addDays(stripStartIso, i + 1)]

weekDays(stripStartIso) == [i \in 0..6 |-> addDays(stripStartIso, i)]

\* The grids a server can answer with: the starts that have free places
GridVariants == {"some"}

FreeStarts(v) ==
    IF v = "some" THEN {HourLabel(2)} ELSE {}

EliteCells(v) ==
    [s \in StartSet |->
        IF s \in FreeStarts(v) THEN [free |-> 1, price |-> JsNum(1200)]
        ELSE [free |-> 0, price |-> JsNull]]

ComfortCells(v) ==
    [s \in StartSet |->
        [free_count |-> IF s \in FreeStarts(v) THEN 3 ELSE 0]]

\* A stored grid; forDate records the date of the fetch that supplied it
\* (the program does not keep it), {} has no cells
EmptyGrid == [forDate |-> <<>>, cells |-> <<>>]

\* The day pills that are clicked: the first and the last of the strip,
\* and with a running clock the first and the second
Pills == {0, 6}
ClockPills == {0, 1}

\* What a fetch can settle with: a grid, a body without result, an HTTP
\* error status, or a rejected fetch
GridOutcomes ==
    {[how |-> "grid", v |-> v] : v \in GridVariants}
        \cup {[how |-> h, v |-> "none"] : h \in {"noresult", "http", "network"}}

gridFetch(kind, date, epoch) ==
    [kind |-> kind, date |-> date, cancelled |-> FALSE, epoch |-> epoch]

\* The state after mount: both grids are being fetched for today
InitUi ==
    /\ EvalIdle
    /\ DateIdle
    /\ ReqIdle
    /\ slotOffset = 0
    /\ ix = IxIdle
    /\ reqs = ReqsIdle
    /\ ui = [pc |-> "idle",
             today |-> todayIso(1),
             tick |-> 1,
             shownAt |-> 1,
             dateIso |-> todayIso(1),
             stripStartIso |-> todayIso(1),
             slot |-> [start_date |-> tariffSlotStartIso(todayIso(1), HourLabel(10)),
                       appointment_id |-> JsNull,
                       serviceId |-> "comfort_elite",
                       free |-> 0, total |-> 0, price |-> JsUndef],
             bookingOpen |-> FALSE,
             eliteGrid |-> EmptyGrid,
             comfortGrid |-> EmptyGrid,
             eliteGridDate |-> todayIso(1),
             comfortGridDate |-> todayIso(1),
             fetches |-> {gridFetch("elite", todayIso(1), 0),
                          gridFetch("comfort", todayIso(1), 0)},
             changes |-> 0,
             dropped |-> FALSE]

UiRest == <<evalVars, dateVars, slotOffset, reqVars, ix, reqs>>

\* the free counts and the price shown in a cell: those of the stored grid
\* while the grid date is the selected date
eliteFreeForStart(start) ==
    IF ui.eliteGridDate # ui.dateIso THEN 0
    ELSE IF start \in DOMAIN ui.eliteGrid.cells
         THEN ui.eliteGrid.cells[start].free ELSE 0

elitePriceForStart(start) ==
    IF ui.eliteGridDate # ui.dateIso THEN JsNull
    ELSE IF start \in DOMAIN ui.eliteGrid.cells
         THEN ui.eliteGrid.cells[start].price ELSE JsNull

comfortFreeForStart(start) ==
    IF ui.comfortGridDate # ui.dateIso THEN 0
    ELSE IF start \in DOMAIN ui.comfortGrid.cells
         THEN ui.comfortGrid.cells[start].free_count ELSE 0

\* past, as the last render computed it
pastShown(start) ==
    isPastSlotKazan(cellDateIso(ui.dateIso, start), start, ui.shownAt)

comfortDisabled(free, past) == free <= 0 \/ past

eliteDisabled(free, past) == free <= 0 \/ past

\* setDateIso(d) of the parent: a new value renders and schedules the
\* effects that depend on dateIso
DateChange(u, d) ==
    IF d = u.dateIso THEN [u EXCEPT !.shownAt = u.tick]
    ELSE [u EXCEPT !.dateIso = d, !.pc = "effects", !.shownAt = u.tick]

\* A day pill of the strip: onDateChange?.(d.iso)
ClickDay(i) ==
    /\ ui.pc = "idle"
    /\ ui.changes < MaxChanges
    /\ weekDays(ui.stripStartIso)[i] # ui.dateIso
    /\ ui' = DateChange(ui, weekDays(ui.stripStartIso)[i])
    /\ UNCHANGED UiRest

\* the previous-week button is disabled while stripStartIso <= today
prevDisabled == ~StrLess(ui.today, ui.stripStartIso)

\* shiftWindow: the start of the strip after a shift, never before today
shiftWindow(dirWeeks) ==
    LET nextStart == addDays(ui.stripStartIso, dirWeeks * 7)
    IN  IF StrLess(nextStart, ui.today) THEN ui.today ELSE nextStart

ShiftWindow(dirWeeks) ==
    /\ ui.pc = "idle"
    /\ ui.changes < MaxChanges
    /\ dirWeeks = -1 => ~prevDisabled
    /\ ui' = [DateChange(ui, shiftWindow(dirWeeks))
                 EXCEPT !.stripStartIso = shiftWindow(dirWeeks)]
    /\ UNCHANGED UiRest

cleanupNoCancel(f) == f

\* the cleanup of a grid effect: cancelled = true in its closure
cleanup(f) == [f EXCEPT !.cancelled = TRUE]

\* the parent's date effect: the slot keeps its time of day
dateEffectSlot(prev, dateIso) ==
    LET cut  == Slice(prev.start_date, 11, 16)
        time == IF cut = <<>> THEN HourLabel(10) ELSE cut
    IN  [prev EXCEPT !.start_date = tariffSlotStartIso(dateIso, time)]

\* The effects of a date change: the strip follows a date before its
\* start, the running grid fetches are cancelled and new ones start, the
\* grid dates are set, the parent moves the selected slot
RunEffects ==
    /\ ui.pc = "effects"
    /\ ui' = [ui EXCEPT
                !.pc = "idle",
                !.shownAt = ui.tick,
                !.changes = ui.changes + 1,
                !.stripStartIso =
                    IF StrLess(ui.dateIso, ui.stripStartIso) THEN ui.dateIso
                    ELSE ui.stripStartIso,
                !.eliteGridDate = ui.dateIso,
                !.comfortGridDate = ui.dateIso,
                !.fetches = {cleanup(f) : f \in ui.fetches}
                    \cup {gridFetch("elite", ui.dateIso, ui.changes + 1),
                          gridFetch("comfort", ui.dateIso, ui.changes + 1)},
                !.slot = dateEffectSlot(ui.slot, ui.dateIso)]
    /\ UNCHANGED UiRest

\* the grid a settled fetch leaves: j.grid when the answer has result and
\* grid, {} otherwise; a cancelled fetch leaves the grid alone
gridAfter(f, o, cur, cells) ==
    IF f.cancelled THEN cur
    ELSE IF o.how = "grid" THEN [forDate |-> f.date, cells |-> cells]
    ELSE EmptyGrid

\* A grid fetch settles with outcome o; ui.dropped records whether the
\* last answer was that of a cancelled fetch (the program keeps no such flag)
GridFetchSettles(f, o) ==
    /\ ui.pc = "idle"
    /\ f \in ui.fetches
    /\ ui' = [ui EXCEPT
                !.fetches = ui.fetches \ {f},
                !.shownAt = IF f.cancelled THEN ui.shownAt ELSE ui.tick,
                !.eliteGrid =
                    IF f.kind = "elite"
                    THEN gridAfter(f, o, ui.eliteGrid, EliteCells(o.v))
                    ELSE ui.eliteGrid,
                !.comfortGrid =
                    IF f.kind = "comfort"
                    THEN gridAfter(f, o, ui.comfortGrid, ComfortCells(o.v))
                    ELSE ui.comfortGrid,
                !.dropped = f.cancelled]
    /\ UNCHANGED UiRest

\* the Slot a click on a cell passes to onSelect and onSlotClick
cellSlot(kind, start) ==
    [start_date |-> cellStartIso(cellDateIso(ui.dateIso, start), start),
     appointment_id |-> JsNull,
     serviceId |-> kind,
     free |-> IF kind = "elite" THEN eliteFreeForStart(start)
              ELSE comfortFreeForStart(start),
     total |-> IF kind = "elite" THEN ELITE_TOTAL ELSE COMFORT_TOTAL,
     price |-> IF kind = "elite" THEN elitePriceForStart(start) ELSE JsUndef]

\* bookComfort / bookElite of the cell of start, as rendered last
Book(kind, start) ==
    /\ ui.pc = "idle"
    /\ IF kind = "elite"
       THEN ~eliteDisabled(eliteFreeForStart(start), pastShown(start))
       ELSE ~comfortDisabled(comfortFreeForStart(start), pastShown(start))
    /\ ui' = [ui EXCEPT
                !.slot = cellSlot(kind, start),
                !.bookingOpen = TRUE,
                !.shownAt = ui.tick]
    /\ UNCHANGED UiRest

\* onClose of the booking modal
CloseBooking ==
    /\ ui.pc = "idle"
    /\ ui.bookingOpen
    /\ ui' = [ui EXCEPT !.bookingOpen = FALSE, !.shownAt = ui.tick]
    /\ UNCHANGED UiRest

\* Time passes; nothing renders
Tick ==
    /\ ui.tick < Len(Clock)
    /\ ui' = [ui EXCEPT !.tick = ui.tick + 1]
    /\ UNCHANGED UiRest

NextUi ==
    \/ \E i \in Pills : ClickDay(i)
    \/ \E dirWeeks \in {-1, 1} : ShiftWindow(dirWeeks)
    \/ RunEffects
    \/ \E f \in ui.fetches, o \in GridOutcomes : GridFetchSettles(f, o)
    \/ \E kind \in {"comfort", "elite"}, start \in StartSet : Book(kind, start)
    \/ CloseBooking

SpecUi == InitUi /\ [][NextUi]_vars

\* The schedule with a running clock
NextUiClock ==
    \/ \E i \in ClockPills : ClickDay(i)
    \/ RunEffects
    \/ \E f \in ui.fetches, o \in GridOutcomes : GridFetchSettles(f, o)
    \/ \E kind \in {"comfort", "elite"}, start \in StartSet : Book(kind, start)
    \/ Tick

SpecUiClock == InitUi /\ [][NextUiClock]_vars

---------------------------------------------------------------------------
(* Claims about the schedule UI                                            *)

\* the values shown in the cells of one category
EliteShown(start) ==
    [free |-> eliteFreeForStart(start), price |-> elitePriceForStart(start)]

ShowsElite == \E s \in StartSet : EliteShown(s) # [free |-> 0, price |-> JsNull]
ShowsComfort == \E s \in StartSet : comfortFreeForStart(s) # 0

\* C24: the comfort and elite free counts and the elite price shown under
\* the selected date D are 0/null or come from a grid that was fetched for
\* D, also while the fetch for D is in flight.
C24_ShownFromGridOfDate ==
    /\ ShowsElite => ui.eliteGrid.forDate = ui.dateIso
    /\ ShowsComfort => ui.comfortGrid.forDate = ui.dateIso

\* C25: a grid response that arrives after the selected date has changed
\* since its fetch was started leaves the elite and comfort grids as they
\* are; a grid changes only by the response of the most recently started
\* fetch of its category.
C25_OnlyLatestFetchSetsGrid ==
    [][/\ \A f \in ui.fetches \ ui'.fetches, o \in GridOutcomes :
            (GridFetchSettles(f, o) /\ f.epoch # ui.changes)
                => /\ ui'.eliteGrid = ui.eliteGrid
                   /\ ui'.comfortGrid = ui.comfortGrid
       /\ ui'.eliteGrid # ui.eliteGrid
            => \E f \in ui.fetches, o \in GridOutcomes :
                   /\ f.kind = "elite" /\ f.epoch = ui.changes
                   /\ GridFetchSettles(f, o)
       /\ ui'.comfortGrid # ui.comfortGrid
            => \E f \in ui.fetches, o \in GridOutcomes :
                   /\ f.kind = "comfort" /\ f.epoch = ui.changes
                   /\ GridFetchSettles(f, o)]_vars

\* Every fetch has settled, the last answer was that of a fetch for the
\* first date, and both stored grids are those of the second date
C25_Witness ==
    /\ ui.dropped
    /\ ui.changes = 1
    /\ ui.eliteGrid.forDate = ui.dateIso
    /\ ui.comfortGrid.forDate = ui.dateIso
    /\ ui.fetches = {}

\* the calendar day an ISO date names, read digit by digit
CalOf(iso) ==
    [y |-> DigitVal(iso[1]) * 1000 + DigitVal(iso[2]) * 100
              + DigitVal(iso[3]) * 10 + DigitVal(iso[4]),
     m |-> DigitVal(iso[6]) * 10 + DigitVal(iso[7]),
     d |-> DigitVal(iso[9]) * 10 + DigitVal(iso[10])]

\* the number of the day an ISO date names, by the calendar
DayNo(iso) == EpochDay(CalOf(iso))

\* C29: after any sequence of day-pill clicks and week shifts from the
\* initial state, the strip never starts before today and the selected
\* date is one of the 7 days shown:
\* today <= stripStart <= selectedDate <= stripStart + 6.
C29_StripHoldsSelected ==
    /\ DayNo(ui.today) <= DayNo(ui.stripStartIso)
    /\ DayNo(ui.stripStartIso) <= DayNo(ui.dateIso)
    /\ DayNo(ui.dateIso) <= DayNo(ui.stripStartIso) + 6
    /\ \E i \in 0..6 : weekDays(ui.stripStartIso)[i] = ui.dateIso

\* The strip was shifted a week ahead and its last day is selected
C29_Witness ==
    /\ ui.pc = "idle"
    /\ DayNo(ui.stripStartIso) = DayNo(ui.today) + 7
    /\ DayNo(ui.dateIso) = DayNo(ui.stripStartIso) + 6

\* The strip was shifted a week ahead and back again
C29_WitnessBack ==
    /\ ui.pc = "idle"
    /\ ui.changes = 2
    /\ ui.stripStartIso = ui.today
    /\ ui.dateIso = ui.today

\* the time of day of the selected slot, and the start_date of the cell of
\* that time under the displayed date, by the calendar
SlotTime == SubSeq(ui.slot.start_date, 12, 16)

CellStartOf(dateIso, time) ==
    LET D    == CalOf(dateIso)
        real == IF MinutesOf(time) < 360 THEN DayBefore(D) ELSE D
    IN  IsoOfDay(real) \o <<"T">> \o time \o <<":", "0", "0">>

\* C30: once the date effect has run after a change of the selected date
\* to D, the selected slot has start_date realDate(D, time)T<time>:00 for
\* its time of day, a cell of the displayed date; the date effect keeps
\* the slot's time of day, service, free count, total and price.
C30_SlotFollowsDate ==
    /\ [](ui.pc = "idle"
            => /\ SlotTime \in StartSet
               /\ ui.slot.start_date = CellStartOf(ui.dateIso, SlotTime))
    /\ [][(ui.pc = "effects" /\ ui'.pc = "idle")
            => /\ SubSeq(ui'.slot.start_date, 12, 16) = SlotTime
               /\ ui'.slot.serviceId = ui.slot.serviceId
               /\ ui'.slot.free = ui.slot.free
               /\ ui'.slot.total = ui.slot.total
               /\ ui'.slot.price = ui.slot.price
               /\ ui'.slot.appointment_id = ui.slot.appointment_id]_vars

\* The elite cell of 02:00 was selected under 2025-01-21 and the date was
\* then changed to today, where that cell is in the past: the slot is the
\* 02:00 cell of today, on the day before
C30_Witness ==
    /\ ui.pc = "idle"
    /\ ui.dateIso = ui.today
    /\ ui.slot.serviceId = "elite"
    /\ SlotTime = HourLabel(2)
    /\ ui.slot.free = 1
    /\ ui.slot.price = JsNum(1200)
    /\ ui.slot.start_date = IsoOfDay(DayBefore(CalOf(ui.today)))
                               \o <<"T", "0", "2", ":", "0", "0", ":", "0", "0">>

\* the night cells of a display date, and the venue-local day and minute
\* of the instant of the last render
NightStarts == {HourLabel(0), HourLabel(2), HourLabel(4)}
RenderDay == EpochDay(Clock[ui.shownAt].day)
RenderMinute == Clock[ui.shownAt].minute

\* a step in which the cell of start is selected: onSelect and onSlotClick
\* are invoked with its Slot (the first three conjuncts hold of every such
\* step and are tested first)
Selects(kind, start) ==
    /\ ui'.pc = ui.pc
    /\ ui'.tick = ui.tick
    /\ ui'.fetches = ui.fetches
    /\ Book(kind, start)

CellInstant(start) ==
    LET D    == CalOf(ui.dateIso)
        real == IF MinutesOf(start) < 360 THEN DayBefore(D) ELSE D
    IN  EpochDay(real) * 1440 + MinutesOf(start)

ClockInstant(k) == EpochDay(Clock[k].day) * 1440 + Clock[k].minute

\* a step in which a fetch of a category that was not cancelled fails
FailsFor(kind) ==
    \E f \in ui.fetches \ ui'.fetches, o \in GridOutcomes :
        /\ f.kind = kind /\ ~f.cancelled /\ o.how # "grid"
        /\ GridFetchSettles(f, o)

\* C26: onSelect/onSlotClick is invoked for a comfort or elite cell only
\* when the free count displayed for it is greater than 0 and its start
\* (real date and time, venue-local) is not in the past; a failed grid
\* fetch empties the grid, after which no cell of that category can be
\* selected.
C26_SelectOnlyFreeAndFuture ==
    [][/\ \A kind \in {"comfort", "elite"}, start \in StartSet :
            Selects(kind, start)
                => /\ ui'.slot.free > 0
                   /\ ~(CellInstant(start) < ClockInstant(ui.tick))
       /\ FailsFor("elite")
            => /\ ui'.eliteGrid = EmptyGrid
               /\ \A start \in StartSet :
                      eliteDisabled(eliteFreeForStart(start), pastShown(start))'
       /\ FailsFor("comfort")
            => /\ ui'.comfortGrid = EmptyGrid
               /\ \A start \in StartSet :
                      comfortDisabled(comfortFreeForStart(start), pastShown(start))']_vars

===========================================================================
